---------------------------- MODULE Spec2Model ----------------------------
(***************************************************************************)
(* A model of the bracelet-code deck search programs:                      *)
(*   - the 52-bit bracelet validator (bit_utilities.c),                    *)
(*   - the depth-first primitive sequence generator (dbn_de_bruijn.c),     *)
(*   - the compound search filters and loops (ultimate_search.c),          *)
(*   - the deck realizer and its scoring (umake_decks.c, deck_utilities.c).*)
(*                                                                         *)
(* A uint64_t is modelled as the set of its set bit positions, a subset of *)
(* 0..63: AND is intersection, OR is union, a shift moves the positions    *)
(* and drops those that leave 0..63.                                       *)
(***************************************************************************)
EXTENDS Integers, Sequences, FiniteSets, TLC

VARIABLES
    prog,         \* which program of the repository this behaviour runs
    b_seq,        \* bit kernel: the sequence passed to bit_has_unique_subsequences
    b_result,     \* bit kernel: the values it has returned (empty before the call)
    dbn,          \* primitive generator: the dbn_de_bruijn_s instance
    dbn_pc,       \* primitive generator: "idle", or "next" while dbn_next is running
    dbn_result,   \* primitive generator: what the last dbn_next returned (empty before a call)
    dbn_out,      \* primitive generator: the non-zero values returned since make/reset
    dbn_resets,   \* primitive generator: number of dbn_reset calls made by the client
    ov_seq,       \* overlap filter: the pair <<seq0, seq1>> passed to it
    ov_result,    \* overlap filter: the values it has returned (empty before the call)
    s_pc,         \* compound search: the loop of ultimate_search_main that runs next
    s_index,      \* compound search: seq_index of the red, cd, odd and c7k cache handles
    s_start,      \* compound search: the four start counts still to be applied
    seq_set,      \* compound search: the ultimate_struct_t of ultimate_search_main
    s_out,        \* compound search: the bundles written so far
    s_args,       \* compound search: the four start counts of program_args
    s_entries,    \* compound search: per loop, the items discarded at each entry into it
    d_pc,         \* deck realizer: the part of umake_decks_main that runs next
    d_record,     \* deck realizer: the text lines of the record that was read
    seq_info,     \* deck realizer: the seq_info_t of umake_decks_main
    deck_info,    \* deck realizer: the deck_info_t of umake_decks_main
    d_local,      \* deck realizer: the local variables of find_best_deck_order
    d_seen,       \* deck realizer: deck, sequence bits and score of every variant built
    d_group_count, \* deck realizer: sequence_group_count of umake_decks_main
    dup_deck_info,\* spread score: the deck_info_t passed to deck_get_dup_count_score
    dup_result,   \* spread score: the values it has returned (empty before the call)
    s_reference_count_array,\* file cache: the static reference count of every cache slot
    s_path_file_name_array,\* file cache: the static path name of every cache slot
    s_cache_array,\* file cache: the static array pointer and count of every cache slot
    f64_handles,  \* file cache: the f64_seq_s of every handle variable of the client
    f64_heap,     \* file cache: the arrays obtained from malloc, by address
    f64_result,   \* file cache: what the last call returned if it was f64_next, else empty
    f64_pc,       \* file cache: "run", or "undefined" after a store outside the static arrays
    f64_log,      \* file cache: what the last call did to the arrays (load, share, free, read)
    f64_failed_opens,\* file cache: the number of f64_make calls that failed
    f64_calls,    \* file cache: per handle variable, the f64_next calls since f64_make or f64_reset
    c_pc,         \* file creator: the part of dbn_file_creator_main, or of the reader of its file, that runs next
    c_file,       \* file creator: the bytes written to the cache file so far
    c_array,      \* file creator: the array that f64_load_file builds from the file
    c_index,      \* file creator: seq_index of the cache handle opened on the file
    c_read,       \* file creator: the values returned by f64_next on that handle, in order
    p_pc,         \* result stream: "write" while the search prints, then the part of the realizer that runs next
    p_stream,     \* result stream: the lines the search has printed, each a tuple of characters
    p_found,      \* result stream: how many of the two "Found" lines of the search precede its next tuple
    p_emitted,    \* result stream: the tuples the search has printed, as values
    p_line,       \* result stream: the number of lines the realizer has read
    p_arrays,     \* result stream: the seven sequence text arrays of umake_decks_main
    p_count,      \* result stream: sequence_group_count and sequence_group_skip_count of the realizer
    p_realized,   \* result stream: line number and values of every call of find_best_deck_order
    k_pc,         \* 8K solver: "call", "loop" while the nested loops of search_for_c8k_sequence run, "returned"
    k_seq_set,    \* 8K solver: the ultimate_struct_t passed to search_for_c8k_sequence
    k_bit_arrays, \* 8K solver: the four bit arrays of the function, as lists of bit positions
    k_index,      \* 8K solver: the loop variables s, h, c and d
    k_result,     \* 8K solver: the value the function returned (empty before the return)
    o_args,       \* program_args: the option flags of ultimate_search
    v_pc,         \* secondary solvers: the part of the c7k loop body of ultimate_search_main that runs next
    v_run,        \* secondary solvers: the bundles that pass is_valid_deck_sequence, in loop order
    v_bundle,     \* secondary solvers: the number of those bundles the loop body has finished
    v_out,        \* secondary solvers: the lines written for the bundles
    v_arrays,     \* 4T solver: the sixteen bit arrays of search_for_c4t_sequence, as lists of bit positions
    v_index,      \* 4T solver: its sixteen loop variables
    v_result,     \* 4T solver: the value the function returned (empty before the return)
    u_out,        \* realizer: the lines that umake_decks has printed on stdout
    r_seq,        \* rotation: the 52-bit sequence
    r_shift,      \* rotation: the number of positions the sequence is rotated by
    r_result,     \* rotation: the validator's answers for the sequence and for the rotated sequence (empty before the calls)
    t_argv,       \* _tmain: argv, the program name and the arguments
    t_arg_index,  \* _tmain: arg_index
    t_next_short, \* arg_get_arguments: the characters next_short_option_ptr points to (empty for NULL)
    t_option_int, \* _tmain: option_int
    t_status,     \* _tmain: status
    t_program_args,\* _tmain: program_args
    t_given,      \* _tmain: the count options read so far, each with the text it was given
    t_out,        \* _tmain: what was printed
    t_pc,         \* _tmain: the part of the function that runs next
    t_called,     \* _tmain: has ultimate_search_main been called
    h_seq_set,    \* filters: seq_set, the four sequences of a bundle and the suit masks
    h_result      \* filters: what the odd filter, the 7K filter and the histogram check returned (empty before the calls)

bit_vars == <<b_seq, b_result>>

dbn_vars == <<dbn, dbn_pc, dbn_result, dbn_out, dbn_resets>>

ov_vars == <<ov_seq, ov_result>>

search_vars == <<s_pc, s_index, s_start, seq_set, s_out, s_args, s_entries>>

deck_vars == <<d_pc, d_record, seq_info, deck_info, d_local, d_seen, d_group_count>>

dup_vars == <<dup_deck_info, dup_result>>

cache_vars == <<s_reference_count_array, s_path_file_name_array, s_cache_array,
                f64_handles, f64_heap, f64_result, f64_pc, f64_log,
                f64_failed_opens, f64_calls>>

create_vars == <<c_pc, c_file, c_array, c_index, c_read>>

pipe_vars == <<p_pc, p_stream, p_found, p_emitted, p_line, p_arrays, p_count, p_realized>>

c8k_vars == <<k_pc, k_seq_set, k_bit_arrays, k_index, k_result>>

opt_vars == <<o_args>>

solve_vars == <<v_pc, v_run, v_bundle, v_out, v_arrays, v_index, v_result>>

out_vars == <<u_out>>

rot_vars == <<r_seq, r_shift, r_result>>

arg_vars == <<t_argv, t_arg_index, t_next_short, t_option_int, t_status, t_program_args, t_given, t_out, t_pc, t_called>>

flt_vars == <<h_seq_set, h_result>>

vars == <<prog, bit_vars, dbn_vars, ov_vars, search_vars, deck_vars, dup_vars, cache_vars, create_vars, pipe_vars, c8k_vars, opt_vars, solve_vars, out_vars, rot_vars, arg_vars, flt_vars>>

\* what an action of one program leaves alone: the variables of the other programs
bit_frame == <<prog, dbn_vars, ov_vars, search_vars, deck_vars, dup_vars, cache_vars, create_vars, pipe_vars, c8k_vars, opt_vars, solve_vars, out_vars, rot_vars, arg_vars, flt_vars>>

dbn_frame == <<prog, bit_vars, ov_vars, search_vars, deck_vars, dup_vars, cache_vars, create_vars, pipe_vars, c8k_vars, opt_vars, solve_vars, out_vars, rot_vars, arg_vars, flt_vars>>

ov_frame == <<prog, bit_vars, dbn_vars, search_vars, deck_vars, dup_vars, cache_vars, create_vars, pipe_vars, c8k_vars, opt_vars, solve_vars, out_vars, rot_vars, arg_vars, flt_vars>>

search_frame == <<prog, bit_vars, dbn_vars, ov_vars, deck_vars, dup_vars, cache_vars, create_vars, pipe_vars, c8k_vars, opt_vars, solve_vars, out_vars, rot_vars, arg_vars, flt_vars>>

deck_frame == <<prog, bit_vars, dbn_vars, ov_vars, search_vars, dup_vars, cache_vars, create_vars, pipe_vars, c8k_vars, opt_vars, solve_vars, rot_vars, arg_vars, flt_vars>>

dup_frame == <<prog, bit_vars, dbn_vars, ov_vars, search_vars, deck_vars, cache_vars, create_vars, pipe_vars, c8k_vars, opt_vars, solve_vars, out_vars, rot_vars, arg_vars, flt_vars>>

cache_frame == <<prog, bit_vars, dbn_vars, ov_vars, search_vars, deck_vars, dup_vars, create_vars, pipe_vars, c8k_vars, opt_vars, solve_vars, out_vars, rot_vars, arg_vars, flt_vars>>

\* the file creator runs the primitive generator, so its frame leaves dbn_vars out
create_frame == <<prog, bit_vars, ov_vars, search_vars, deck_vars, dup_vars, cache_vars, pipe_vars, c8k_vars, opt_vars, solve_vars, out_vars, rot_vars, arg_vars, flt_vars>>

pipe_frame == <<prog, bit_vars, dbn_vars, ov_vars, search_vars, deck_vars, dup_vars, cache_vars, create_vars, c8k_vars, opt_vars, solve_vars, rot_vars, arg_vars, flt_vars>>

c8k_frame == <<prog, bit_vars, dbn_vars, ov_vars, search_vars, deck_vars, dup_vars, cache_vars, create_vars, pipe_vars, opt_vars, solve_vars, out_vars, rot_vars, arg_vars, flt_vars>>

\* the solver loop runs the 8K solver, so its frame leaves c8k_vars out
solve_frame == <<prog, bit_vars, dbn_vars, ov_vars, search_vars, deck_vars, dup_vars, cache_vars, create_vars, pipe_vars, opt_vars, out_vars, rot_vars, arg_vars, flt_vars>>

rot_frame == <<prog, bit_vars, dbn_vars, ov_vars, search_vars, deck_vars, dup_vars, cache_vars, create_vars, pipe_vars, c8k_vars, opt_vars, solve_vars, out_vars, arg_vars, flt_vars>>

arg_frame == <<prog, bit_vars, dbn_vars, ov_vars, search_vars, deck_vars, dup_vars, cache_vars, create_vars, pipe_vars, c8k_vars, opt_vars, solve_vars, out_vars, rot_vars, flt_vars>>

flt_frame == <<prog, bit_vars, dbn_vars, ov_vars, search_vars, deck_vars, dup_vars, cache_vars, create_vars, pipe_vars, c8k_vars, opt_vars, solve_vars, out_vars, rot_vars, arg_vars>>


\* the variables of a program that does not run
BitIdle == b_seq = {} /\ b_result = << >>

DbnIdle ==
    /\ dbn = << >>
    /\ dbn_pc = "idle"
    /\ dbn_result = << >>
    /\ dbn_out = << >>
    /\ dbn_resets = 0

OverlapIdle == ov_seq = << >> /\ ov_result = << >>

SearchIdle ==
    /\ s_pc = "idle"
    /\ s_index = << >>
    /\ s_start = << >>
    /\ seq_set = << >>
    /\ s_out = << >>
    /\ s_args = << >>
    /\ s_entries = << >>

DeckIdle ==
    /\ d_pc = "idle"
    /\ d_record = << >>
    /\ seq_info = << >>
    /\ deck_info = << >>
    /\ d_local = << >>
    /\ d_seen = << >>
    /\ d_group_count = << >>

DupIdle == dup_deck_info = << >> /\ dup_result = << >>

CacheIdle ==
    /\ s_reference_count_array = << >>
    /\ s_path_file_name_array = << >>
    /\ s_cache_array = << >>
    /\ f64_handles = << >>
    /\ f64_heap = << >>
    /\ f64_result = << >>
    /\ f64_pc = "idle"
    /\ f64_log = << >>
    /\ f64_failed_opens = 0
    /\ f64_calls = << >>

CreateIdle ==
    /\ c_pc = "idle"
    /\ c_file = << >>
    /\ c_array = << >>
    /\ c_index = 0
    /\ c_read = << >>

PipeIdle ==
    /\ p_pc = "idle"
    /\ p_stream = << >>
    /\ p_found = 0
    /\ p_emitted = << >>
    /\ p_line = 0
    /\ p_arrays = << >>
    /\ p_count = << >>
    /\ p_realized = << >>

C8kIdle ==
    /\ k_pc = "idle"
    /\ k_seq_set = << >>
    /\ k_bit_arrays = << >>
    /\ k_index = << >>
    /\ k_result = << >>

OptIdle ==
    /\ o_args = << >>

SolveIdle ==
    /\ v_pc = "idle"
    /\ v_run = << >>
    /\ v_bundle = 0
    /\ v_out = << >>
    /\ v_arrays = << >>
    /\ v_index = << >>
    /\ v_result = << >>

OutIdle ==
    /\ u_out = << >>

RotIdle ==
    /\ r_seq = {}
    /\ r_shift = 0
    /\ r_result = << >>

ArgIdle ==
    /\ t_argv = << >>
    /\ t_arg_index = 0
    /\ t_next_short = << >>
    /\ t_option_int = 0
    /\ t_status = 0
    /\ t_program_args = << >>
    /\ t_given = {}
    /\ t_out = << >>
    /\ t_pc = "idle"
    /\ t_called = FALSE

FilterIdle ==
    /\ h_seq_set = << >>
    /\ h_result = << >>

IdleExcept(p) ==
    /\ (p # "bit") => BitIdle
    /\ (p \notin {"dbn", "create"}) => DbnIdle
    /\ (p # "overlap") => OverlapIdle
    /\ (p # "search") => SearchIdle
    /\ (p # "deck") => DeckIdle
    /\ (p # "dup") => DupIdle
    /\ (p # "cache") => CacheIdle
    /\ (p # "create") => CreateIdle
    /\ (p # "pipe") => PipeIdle
    /\ (p \notin {"c8k", "diff", "solve"}) => C8kIdle
    /\ (p \notin {"search", "solve", "deck"}) => OptIdle
    /\ (p # "solve") => SolveIdle
    /\ (p \notin {"deck", "pipe"}) => OutIdle
    /\ (p # "rot") => RotIdle
    /\ (p # "tmain") => ArgIdle
    /\ (p # "filter") => FilterIdle

-----------------------------------------------------------------------------
(* uint64_t arithmetic on bit-position sets *)

WordBits == 64

BitRange == 0 .. (WordBits - 1)

\* 1 << n as an integer, for the small exponents the programs use
Pow2(n) == 2 ^ n

\* w << n
Shl(w, n) == {i + n : i \in w} \cap BitRange

\* w >> n
Shr(w, n) == {i - n : i \in {j \in w : j >= n}}

\* the set of bit positions of a small non-negative integer m
IntBits(m) == {i \in 0 .. 30 : (m \div Pow2(i)) % 2 = 1}

\* the integer value of a word that fits in an int
RECURSIVE WordToInt(_)
WordToInt(w) ==
    IF w = {} THEN 0
    ELSE LET i == CHOOSE j \in w : TRUE IN Pow2(i) + WordToInt(w \ {i})

\* (unsigned int)(w & m) for a small integer mask m
AndMask(w, m) == WordToInt(w \cap IntBits(m))

-----------------------------------------------------------------------------
(* Bit kernel: bit_utilities.c *)

SEQUENCE_LENGTH == 52

SUBSEQUENCE_MASK == 63

\* the value of subsequence_index in pass i of the loop of bit_has_unique_subsequences
subsequence_index(seq, i) == AndMask(Shr(seq, i), SUBSEQUENCE_MASK)

\* the for loop of bit_has_unique_subsequences run for at most count passes: is_valid
\* stays true as long as no pass finds its sub-sequence bit already in the store, that
\* is as long as the passes have set as many bits of the store as there were passes
bhus_loop(seq, count) ==
    Cardinality({subsequence_index(seq, i) : i \in 0 .. (count - 1)}) = count

\* variant in which the five windows that wrap around the end are never tested
bit_has_unique_subsequences_nowrap(sequence) ==
    bhus_loop(sequence, SEQUENCE_LENGTH - 5)

\* BOOL bit_has_unique_subsequences(uint64_t sequence)
bit_has_unique_subsequences(sequence) ==
    bhus_loop(sequence \cup Shl(sequence \cap IntBits(31), SEQUENCE_LENGTH), SEQUENCE_LENGTH)

\* int bit_count_set_bits(unsigned int value): clears the lowest set bit until none is left
RECURSIVE bit_count_set_bits_loop(_, _)
bit_count_set_bits_loop(bits, count) ==
    IF bits = {} THEN count
    ELSE LET low == CHOOSE i \in bits : \A j \in bits : i <= j
         IN  bit_count_set_bits_loop(bits \ {low}, count + 1)

bit_count_set_bits(value) == bit_count_set_bits_loop(IntBits(value), 0)

-----------------------------------------------------------------------------
(* Primitive generator: dbn_de_bruijn.c *)

\* a dbn_move_t
Move(subseq_bit_store, value, length, set_bit_count, bit) ==
    [subseq_bit_store |-> subseq_bit_store, value |-> value, length |-> length,
     set_bit_count |-> set_bit_count, bit |-> bit]

\* unsigned int dbn_get_next_power_of_two(unsigned int value), for 1 <= value
dbn_get_next_power_of_two(value) ==
    LET v0 == IntBits(value - 1)
        v1 == v0 \cup Shr(v0, 1)
        v2 == v1 \cup Shr(v1, 2)
        v3 == v2 \cup Shr(v2, 4)
        v4 == v3 \cup Shr(v3, 8)
        v5 == v4 \cup Shr(v4, 16)
    IN  WordToInt(v5) + 1

\* unsigned int dbn_get_log_base_2_rounded_up(unsigned int value)
dbn_get_log_base_2_rounded_up(value) ==
    bit_count_set_bits(dbn_get_next_power_of_two(value) - 1)

\* void dbn_reset(dbn_ptr): the stack holds the one-bit move, then the zero-bit move
dbn_reset(d) ==
    [d EXCEPT !.bit_obj_stack = << Move({}, {}, 0, 0, 1), Move({}, {}, 0, 0, 0) >>]

\* int dbn_make(...): the instance after a successful call
dbn_make(n_bits_max, n_one_bits, subseq_not_all_the_same_bits) ==
    LET count == dbn_get_log_base_2_rounded_up(n_bits_max)
        mask  == Pow2(count) - 1
    IN  dbn_reset([bit_obj_stack |-> << >>,
                   all_subseq_bits_are_zeros_bit |-> {0},
                   all_subseq_bits_are_ones_bit |-> {mask},
                   subseq_mask |-> mask,
                   n_sub_sequence_bit_count |-> count,
                   n_bits_max |-> n_bits_max,
                   n_one_bits |-> n_one_bits,
                   subseq_not_all_the_same_bits |-> subseq_not_all_the_same_bits])

\* variant of the population test that already drops a move reaching the target
dbn_too_many_bits_at_target(d, set_bit_count) ==
    (d.n_one_bits # 0) /\ (set_bit_count >= d.n_one_bits)

\* dbn_next: "If too many bits are set, then this sequence is not valid."
dbn_too_many_bits(d, set_bit_count) ==
    (d.n_one_bits # 0) /\ (set_bit_count > d.n_one_bits)

\* variant of the sub-sequence test that takes every sub-sequence as new
dbn_subseq_any(d, subseq_bit_store, subseq_bit) == TRUE

\* dbn_next: is the sub-sequence bit new (and, under the strict flag, not uniform)?
dbn_subseq_ok(d, subseq_bit_store, subseq_bit) ==
    /\ (subseq_bit_store \cap subseq_bit) = {}
    /\ (d.subseq_not_all_the_same_bits # 0)
         => /\ subseq_bit # d.all_subseq_bits_are_zeros_bit
            /\ subseq_bit # d.all_subseq_bits_are_ones_bit

\* dbn_next: the loop over the n_sub_sequence_bit_count - 1 wrapped sub-sequences
RECURSIVE dbn_wrap_loop(_, _, _, _)
dbn_wrap_loop(d, temp, subseq_bit_store, i) ==
    IF i >= d.n_sub_sequence_bit_count - 1 THEN TRUE
    ELSE LET subseq_bit == {AndMask(temp, d.subseq_mask)}
         IN  IF ~dbn_subseq_ok(d, subseq_bit_store, subseq_bit) THEN FALSE
             ELSE dbn_wrap_loop(d, Shr(temp, 1), subseq_bit_store \cup subseq_bit, i + 1)

\* variant that emits a full-length value without testing the wrapped sub-sequences
dbn_wrap_valid_untested(d, value, subseq_bit_store) == TRUE

\* dbn_next: "Are all sub-sequences unique?" for a value of full length
dbn_wrap_valid(d, value, subseq_bit_store) ==
    LET temp == Shl(value, d.n_sub_sequence_bit_count - 1)
                \cup Shr(value, d.n_bits_max - (d.n_sub_sequence_bit_count - 1))
    IN  dbn_wrap_loop(d, temp, subseq_bit_store, 0)

\* variant of the pass that leaves the popped move on the stack
dbn_next_pass_keeping(d) ==
    [bit_obj_stack |-> d.bit_obj_stack, returned |-> FALSE, result_sequence |-> {}]

\* uint64_t dbn_next(dbn_ptr): one pass of the depth-first search loop over a non-empty
\* stack; yields the stack left behind and, when the pass ends the call, the result
dbn_next_pass(d) ==
    LET stack         == d.bit_obj_stack
        bit_obj_ptr   == stack[Len(stack)]
        popped        == SubSeq(stack, 1, Len(stack) - 1)
        set_bit_count == bit_obj_ptr.set_bit_count + bit_obj_ptr.bit
        value         == Shl(bit_obj_ptr.value, 1)
                         \cup (IF bit_obj_ptr.bit = 1 THEN {0} ELSE {})
        length        == bit_obj_ptr.length + 1
        tested        == length >= d.n_sub_sequence_bit_count
        subseq_bit    == {AndMask(value, d.subseq_mask)}
        is_valid_sequence_flag ==
            tested => dbn_subseq_ok(d, bit_obj_ptr.subseq_bit_store, subseq_bit)
        subseq_bit_store ==
            IF tested THEN bit_obj_ptr.subseq_bit_store \cup subseq_bit
            ELSE bit_obj_ptr.subseq_bit_store
        bit           == IF length < d.n_sub_sequence_bit_count THEN 1 ELSE 0
        continue      == [bit_obj_stack |-> popped, returned |-> FALSE, result_sequence |-> {}]
    IN
    IF dbn_too_many_bits(d, set_bit_count) THEN continue
    ELSE IF ~is_valid_sequence_flag THEN continue
    ELSE IF /\ length = d.n_bits_max
            /\ (d.n_one_bits = 0 \/ set_bit_count = d.n_one_bits)
    THEN IF dbn_wrap_valid(d, value, subseq_bit_store)
         THEN [bit_obj_stack |-> popped, returned |-> TRUE, result_sequence |-> value]
         ELSE continue
    ELSE [bit_obj_stack |-> popped \o
              << Move(subseq_bit_store, value, length, set_bit_count, bit),
                 Move(subseq_bit_store, value, length, set_bit_count, 1 - bit) >>,
          returned |-> FALSE, result_sequence |-> {}]

-----------------------------------------------------------------------------
(* What the claims mean by a bracelet-valid sequence, stated without the code *)

\* the cyclic window of s that starts at position i: bits i .. i+w-1, indices mod n
CyclicWindow(s, i, n, w) == {t \in 0 .. (w - 1) : ((i + t) % n) \in s}

\* the n cyclic length-w windows of s are pairwise distinct
WindowsDistinct(s, n, w) ==
    \A i, j \in 0 .. (n - 1) : (i # j) => (CyclicWindow(s, i, n, w) # CyclicWindow(s, j, n, w))

\* some cyclic window of s is all-zero or all-one
HasUniformWindow(s, n, w) ==
    \E i \in 0 .. (n - 1) : CyclicWindow(s, i, n, w) \in { {}, 0 .. (w - 1) }

-----------------------------------------------------------------------------
(* Text of a sequence line: a tuple of one-character strings *)

\* uint64_t bit_get_integer_seq(const TCHAR * sequence_ptr): the characters before the
\* first newline (or the end of the string), blanks and tabs skipped; every digit read
\* shifts the value left by one, so the p-th of m digits lands on bit m - p
bit_get_integer_seq(text) ==
    LET stops  == {p \in 1 .. Len(text) : text[p] = "\n"}
        last   == IF stops = {} THEN Len(text)
                  ELSE (CHOOSE p \in stops : \A q \in stops : p <= q) - 1
        digits == SelectSeq(SubSeq(text, 1, last), LAMBDA c : c \notin {" ", "\t"})
        m      == Len(digits)
    IN  {m - p : p \in {q \in 1 .. m : digits[q] = "1"}} \cap BitRange

-----------------------------------------------------------------------------
(* Data: sequences as they stand in the cache files and the candidate file *)

\* first value of dbn_52_26.bin
Dbn26First ==
    <<"0","0","0","0","0","0","1","1","1","1","1","1","0",
      "1","1","1","1","0","0","1","1","1","0","1","0","1",
      "1","1","0","0","0","1","1","0","1","1","0","0","0",
      "0","1","0","1","0","1","0","0","0","1","0","0","1">>

\* first value of dbn_52_28.bin
Dbn28First ==
    <<"0","0","0","0","0","0","1","1","1","1","1","1","0",
      "1","1","1","1","0","0","1","1","1","0","1","0","1",
      "1","1","0","0","0","1","1","0","1","1","0","1","0",
      "0","1","1","0","0","1","0","0","1","0","1","0","1">>

\* a suit sequence without a uniform run of six
SearchRed ==
    <<"0","0","1","0","1","1","1","1","1","0","1","0","1",
      "1","0","1","0","0","1","0","0","0","0","0","1","0",
      "1","0","1","0","0","0","1","1","1","0","1","1","0",
      "0","0","1","0","0","1","1","0","0","1","1","1","1">>

\* a suit sequence that pairs with SearchRed; their exclusive or is bracelet-valid
SearchCd ==
    <<"0","1","1","1","0","0","0","1","0","1","0","0","0",
      "1","1","1","0","1","0","0","1","0","0","0","0","1",
      "1","0","0","0","0","0","1","0","0","1","1","1","1",
      "1","1","0","1","1","1","1","0","0","1","1","0","1">>

\* a value sequence with seven ones in each suit of (SearchRed, SearchCd)
SearchOdd ==
    <<"1","0","0","1","0","1","1","1","1","1","1","0","0",
      "1","1","1","1","0","1","0","1","1","0","0","0","0",
      "0","1","0","1","0","1","0","0","1","0","0","1","1",
      "0","1","1","1","0","1","1","0","1","0","0","0","1">>

\* a value sequence completing (SearchRed, SearchCd, SearchOdd) to a bundle
SearchC7k ==
    <<"0","1","0","0","0","0","0","1","1","0","1","0","0",
      "1","1","1","0","0","0","1","1","1","1","0","1","0",
      "1","1","1","0","1","1","1","1","1","1","0","0","1",
      "0","1","1","0","1","1","0","0","1","1","0","0","0">>

\* a value sequence with the four 00-overlap counts of SearchC7k but another joint histogram
SearchC7kUneven ==
    <<"0","0","0","0","0","1","0","1","1","0","0","1","1",
      "0","1","1","0","1","0","0","0","1","0","0","1","1",
      "1","1","1","1","0","1","1","1","1","0","0","0","1",
      "1","1","0","1","0","1","0","1","1","1","0","0","1">>

\* the suit and value sequences of a second bundle; neither suit sequence has a uniform run
Search2Red ==
    <<"0","1","0","1","1","0","0","0","1","1","1","0","1",
      "0","0","0","1","0","0","0","0","1","1","0","1","0",
      "1","0","0","1","1","1","1","0","0","0","0","0","1",
      "0","1","0","1","1","1","1","1","0","1","1","1","0">>

\* second bundle, CD
Search2Cd ==
    <<"0","0","1","1","1","1","0","0","0","0","0","1","1",
      "1","0","1","0","1","0","0","0","1","0","0","0","0",
      "1","0","1","1","1","1","1","0","1","1","1","0","0",
      "1","0","1","0","1","1","0","0","0","1","1","0","1">>

\* second bundle, ODD
Search2Odd ==
    <<"0","1","0","0","1","1","0","0","1","0","1","1","0",
      "1","1","1","0","0","1","1","1","0","1","1","0","0",
      "0","1","0","1","0","1","1","1","1","1","1","0","0",
      "0","0","0","0","1","1","1","1","0","1","0","1","0">>

\* second bundle, 7K
Search2C7k ==
    <<"1","1","1","1","1","0","0","1","1","0","0","1","0",
      "1","1","0","0","0","1","0","0","0","1","1","0","1",
      "1","0","1","0","0","1","1","1","1","0","1","0","1",
      "0","1","1","1","0","0","0","0","0","1","1","1","0">>

\* Dbn28First rotated by two places
Dbn28Rotated ==
    <<"0","0","0","0","1","1","1","1","1","1","0","1","1",
      "1","1","0","0","1","1","1","0","1","0","1","1","1",
      "0","0","0","1","1","0","1","1","0","1","0","0","1",
      "1","0","0","1","0","0","1","0","1","0","1","0","0">>

\* RED line of a candidate record whose six validated sequences are bracelet-valid
DeckRed ==
    <<"0","0","1","1","1","1","0","1","0","0","1","1","0",
      "1","0","1","1","1","1","1","1","0","0","1","1","1",
      "0","1","1","1","0","0","0","0","0","0","1","0","1",
      "0","1","0","0","0","0","1","1","0","0","0","1","0">>

\* CD line of that record
DeckCd ==
    <<"0","0","0","0","1","1","0","1","0","0","0","0","0",
      "1","0","1","0","1","1","1","0","1","0","1","0","0",
      "1","0","0","0","1","0","0","1","1","1","1","1","0",
      "1","1","1","1","0","0","1","0","1","1","0","1","1">>

\* ODD line of that record
DeckOdd ==
    <<"1","1","0","0","0","0","0","1","1","0","0","1","1",
      "1","0","1","0","1","0","0","1","0","1","0","1","1",
      "1","0","0","1","0","0","0","1","1","1","1","0","1",
      "1","0","1","1","1","1","1","1","0","0","0","1","0">>

\* 7K line of that record
DeckC7k ==
    <<"0","0","1","0","1","1","1","0","1","1","0","0","1",
      "0","0","1","0","1","0","1","1","0","1","0","0","0",
      "1","1","1","1","0","1","0","1","0","0","1","1","1",
      "0","0","1","1","0","1","1","1","1","1","0","0","0">>

\* 8K line of that record
DeckC8k ==
    <<"0","0","1","0","1","1","1","0","1","1","0","0","1",
      "0","0","1","0","1","0","1","1","0","1","0","0","0",
      "1","1","1","1","0","1","0","1","0","0","1","1","1",
      "0","0","0","1","0","0","0","0","1","1","0","0","0">>

\* 4T line of that record
DeckC4t ==
    <<"1","0","1","0","1","0","0","0","0","1","1","1","1",
      "1","1","0","1","0","1","1","1","1","0","0","0","0",
      "0","0","1","0","1","1","0","1","0","0","1","1","0",
      "1","1","1","0","0","1","1","1","0","1","1","0","0">>

\* RED line of a record that decodes to two 2s and no 5 in hearts
TwoTwosRed ==
    <<"0","0","1","1","0","1","1","0","0","0","1","0","1",
      "1","0","1","0","0","0","0","1","0","0","1","1","0",
      "0","1","0","0","0","1","1","1","0","1","1","1","1",
      "1","1","0","1","0","1","0","1","1","1","0","0","0">>

\* CD line of that record
TwoTwosCd ==
    <<"0","0","0","0","0","1","1","0","1","0","0","0","1",
      "0","1","0","0","1","1","1","1","0","1","1","0","1",
      "1","1","1","1","1","0","0","1","0","0","1","0","1",
      "1","1","0","1","0","1","1","0","0","0","0","1","0">>

\* ODD line of that record
TwoTwosOdd ==
    <<"1","0","1","0","0","0","1","0","0","1","1","0","0",
      "1","1","1","1","0","1","0","0","1","0","1","0","1",
      "1","1","1","1","0","0","0","1","1","0","1","1","1",
      "0","1","1","0","0","0","0","0","1","0","1","1","0">>

\* 7K line of that record
TwoTwosC7k ==
    <<"0","0","1","0","1","0","0","1","1","1","0","0","0",
      "1","1","1","1","1","0","1","1","1","0","1","0","1",
      "1","0","0","0","0","0","1","1","0","0","1","1","0",
      "1","1","0","1","0","0","0","1","0","1","1","1","1">>

\* 8K line of that record
TwoTwosC8k ==
    <<"0","0","0","0","1","0","0","1","1","1","0","0","0",
      "1","1","1","1","1","0","1","1","1","0","1","0","1",
      "0","0","0","0","0","0","1","1","0","0","1","1","0",
      "1","0","0","1","0","0","0","1","0","1","0","1","1">>

\* 4T line of that record
TwoTwosC4t ==
    <<"1","1","1","1","1","1","0","1","0","1","0","1","1",
      "1","1","0","0","1","0","1","1","0","1","0","0","0",
      "1","1","1","0","0","0","0","0","0","1","1","0","0",
      "0","1","0","1","0","0","1","1","0","1","1","0","0">>

\* RED line of a record whose realizations differ in the number of special sequences
ScoreRed ==
    <<"0","0","1","1","0","0","0","0","1","1","1","1","1",
      "0","0","1","0","1","0","1","1","0","1","1","1","0",
      "0","0","1","0","0","0","1","1","0","1","0","1","0",
      "0","0","0","0","1","0","1","1","1","1","0","1","1">>

\* CD line of that record
ScoreCd ==
    <<"0","1","1","1","0","0","1","1","1","1","0","1","0",
      "1","1","1","0","1","1","1","1","1","1","0","0","0",
      "1","0","1","1","0","0","0","0","1","1","0","0","1",
      "0","1","0","0","0","0","0","1","0","0","1","0","0">>

\* ODD line of that record
ScoreOdd ==
    <<"0","0","1","1","0","1","1","1","1","1","1","0","0",
      "0","1","0","1","0","1","1","0","0","1","1","1","1",
      "0","1","0","1","0","0","0","1","1","0","0","0","0",
      "1","0","0","1","0","1","1","1","0","1","1","0","1">>

\* 7K line of that record
ScoreC7k ==
    <<"1","1","1","0","0","0","1","0","0","0","1","1","1",
      "0","1","1","1","1","0","1","0","0","1","0","1","1",
      "0","0","0","0","1","1","0","0","1","0","0","1","1",
      "0","1","0","1","0","1","1","1","0","0","1","1","1">>

\* 8K line of that record
ScoreC8k ==
    <<"1","1","0","0","0","0","1","0","0","0","1","1","1",
      "0","1","1","1","1","0","1","0","0","1","0","1","0",
      "0","0","0","0","1","1","0","0","1","0","0","1","1",
      "0","1","0","1","0","1","1","1","0","0","0","1","0">>

\* 4T line of that record
ScoreC4t ==
    <<"0","0","1","0","0","0","0","1","1","0","1","0","0",
      "1","0","1","0","1","0","0","0","1","1","1","0","1",
      "0","1","1","0","1","1","0","0","1","1","1","1","1",
      "0","1","1","1","1","0","0","0","1","0","1","1","1">>

\* RED line of a record that decodes one spade cell to the unassigned code
NoneSpadeRed ==
    <<"0","1","1","1","0","1","1","1","1","0","1","0","0",
      "0","0","0","0","1","1","0","0","0","1","0","0","1",
      "0","0","0","1","1","1","1","1","1","0","0","1","1",
      "1","0","0","0","0","1","0","1","1","0","1","0","1">>

\* CD line of that record
NoneSpadeCd ==
    <<"0","1","0","1","1","1","0","1","0","0","1","1","1",
      "1","1","0","1","1","1","1","0","0","1","1","0","0",
      "0","1","1","1","0","0","0","0","0","0","1","0","1",
      "0","0","0","0","1","1","0","1","1","0","0","1","0">>

\* ODD line of that record
NoneSpadeOdd ==
    <<"1","1","1","0","1","1","1","1","1","1","0","1","0",
      "1","0","0","1","1","0","0","0","0","1","1","0","1",
      "1","0","0","1","0","0","0","1","1","1","1","0","0",
      "0","1","0","0","1","0","1","0","1","1","1","0","0">>

\* 7K line of that record
NoneSpadeC7k ==
    <<"0","0","0","1","0","0","1","1","1","0","1","0","1",
      "0","0","0","1","1","1","1","1","0","1","1","1","0",
      "0","0","0","1","0","1","0","1","1","1","1","0","0",
      "1","1","0","1","1","0","1","0","0","1","0","1","1">>

\* 8K line of that record
NoneSpadeC8k ==
    <<"0","0","0","1","0","0","1","1","1","0","1","0","1",
      "0","0","1","0","1","1","1","1","0","1","1","1","0",
      "0","0","0","0","0","1","0","1","0","1","1","0","0",
      "1","1","0","1","1","0","1","0","0","0","0","1","1">>

\* 4T line of that record
NoneSpadeC4t ==
    <<"1","1","0","1","1","0","1","0","0","0","0","0","1",
      "0","0","0","1","1","1","1","1","1","0","0","0","1",
      "0","1","1","1","1","0","1","0","1","1","0","0","1",
      "1","0","1","1","1","0","0","1","0","1","0","0","1">>

\* RED line of a record that decodes one heart cell to the unassigned code
NoneHeartRed ==
    <<"0","0","1","0","1","1","0","0","0","0","0","1","1",
      "0","1","1","1","1","1","0","1","0","1","0","0","0",
      "1","1","1","0","1","1","0","1","0","0","1","1","0",
      "0","1","1","1","1","0","0","1","0","0","0","0","1">>

\* CD line of that record
NoneHeartCd ==
    <<"0","0","0","1","0","0","1","1","0","0","0","0","0",
      "0","1","1","0","1","0","1","1","1","1","1","0","1",
      "1","0","0","1","1","1","1","0","0","0","1","0","1",
      "1","0","1","1","1","0","0","1","0","1","0","1","0">>

\* ODD line of that record
NoneHeartOdd ==
    <<"1","0","1","0","0","1","0","0","0","0","0","0","1",
      "1","1","1","0","1","1","0","0","1","0","1","1","1",
      "0","0","0","1","0","0","1","1","1","0","1","0","1",
      "0","1","1","0","1","1","1","1","1","1","0","0","1">>

\* 7K line of that record
NoneHeartC7k ==
    <<"0","0","1","0","0","1","0","1","1","1","1","0","0",
      "1","1","1","1","1","1","0","1","0","1","1","0","0",
      "0","1","1","1","0","1","1","1","0","0","0","0","0",
      "1","0","1","0","0","1","1","0","1","1","0","1","0">>

\* 8K line of that record
NoneHeartC8k ==
    <<"0","0","1","0","0","0","0","1","1","1","1","1","0",
      "1","1","0","1","1","1","0","1","0","1","1","0","0",
      "0","1","1","0","0","1","1","1","0","0","0","0","0",
      "1","0","1","0","0","1","0","0","1","1","0","1","0">>

\* 4T line of that record
NoneHeartC4t ==
    <<"1","1","0","0","1","1","1","1","1","1","0","0","0",
      "1","0","1","0","0","0","1","1","0","1","0","0","1",
      "0","1","1","1","1","0","1","1","0","1","1","1","0",
      "1","0","1","1","0","0","1","0","0","0","0","0","1">>

\* RED line of a record that decodes to one 4-or-6 marker and two 2s in hearts
OddCountRed ==
    <<"0","0","0","1","0","1","0","1","0","0","0","0","0",
      "1","0","0","0","1","1","1","0","0","1","1","1","1",
      "0","1","0","0","1","1","0","1","0","1","1","0","1",
      "1","0","0","1","0","0","1","0","1","1","1","1","1">>

\* CD line of that record
OddCountCd ==
    <<"0","1","0","0","0","1","1","0","0","0","0","0","1",
      "0","1","0","0","1","1","0","1","1","0","1","0","1",
      "0","1","1","0","0","1","1","1","0","1","1","1","0",
      "0","1","0","1","1","1","1","1","0","0","0","1","0">>

\* ODD line of that record
OddCountOdd ==
    <<"1","1","0","0","0","0","0","0","1","0","1","0","0",
      "1","0","0","1","1","1","0","0","1","1","0","0","0",
      "1","1","1","1","1","1","0","1","0","1","0","1","1",
      "0","1","1","0","0","1","0","1","1","1","0","1","1">>

\* 7K line of that record
OddCountC7k ==
    <<"0","0","0","1","1","1","0","0","1","1","0","1","1",
      "1","1","0","1","0","1","0","1","1","0","0","1","0",
      "1","1","1","0","1","1","0","1","0","0","1","1","1",
      "1","1","1","0","0","0","1","0","0","1","0","0","0">>

\* 8K line of that record
OddCountC8k ==
    <<"0","0","0","1","1","1","0","0","1","1","0","1","1",
      "1","1","0","1","0","0","0","1","1","0","0","1","0",
      "1","1","0","0","0","1","0","1","0","0","1","1","1",
      "1","1","0","0","0","0","1","0","0","1","0","0","0">>

\* 4T line of that record
OddCountC4t ==
    <<"1","1","1","1","1","1","0","0","0","0","0","1","0",
      "1","1","1","1","0","1","1","1","0","0","1","0","1",
      "0","1","1","0","1","0","1","0","0","1","1","0","0",
      "1","1","1","0","1","0","0","0","1","0","0","0","0">>

-----------------------------------------------------------------------------
(* Specification SpecBit: the validator applied to sequences read from text *)

MaxFlips == 1

BitBases == {bit_get_integer_seq(Dbn26First), bit_get_integer_seq(Dbn28First)}

\* the sets of at most k of the 52 positions
RECURSIVE FlipSets(_)
FlipSets(k) ==
    IF k = 0 THEN { {} }
    ELSE LET smaller == FlipSets(k - 1)
         IN  smaller \cup {f \cup {i} : f \in smaller, i \in 0 .. (SEQUENCE_LENGTH - 1)}

\* the inputs: a base sequence with at most MaxFlips of its 52 digits changed
BitInputs ==
    {(b \ f) \cup (f \ b) : b \in BitBases, f \in FlipSets(MaxFlips)}

InitBit ==
    /\ prog = "bit"
    /\ b_seq \in BitInputs
    /\ b_result = << >>
    /\ IdleExcept("bit")

BitCheck ==
    /\ prog = "bit"
    /\ b_result = << >>
    /\ b_result' = << bit_has_unique_subsequences(b_seq) >>
    /\ UNCHANGED <<bit_frame, b_seq>>

NextBit == BitCheck

SpecBit == InitBit /\ [][NextBit]_vars

\* C1: for every sequence with bits 52..63 zero, bit_has_unique_subsequences returns
\* true if and only if its 52 cyclic length-6 windows (window i = bits i..i+5, indices
\* mod 52) are pairwise distinct.
C1_ValidatorIffWindowsDistinct ==
    (prog = "bit" /\ b_result # << >>) =>
        /\ b_seq \subseteq 0 .. 51
        /\ b_result[1] = WindowsDistinct(b_seq, 52, 6)

\* the validator has accepted a sequence
C1_Witness == prog = "bit" /\ b_result = << TRUE >>

\* the validator has rejected a sequence whose only repeated windows lie across the wrap
C1_WitnessWrap ==
    /\ prog = "bit"
    /\ b_result = << FALSE >>
    /\ \A i, j \in 0 .. 46 :
           (i # j) => (CyclicWindow(b_seq, i, 52, 6) # CyclicWindow(b_seq, j, 52, 6))

-----------------------------------------------------------------------------
(* Specification SpecDbn: a client of the primitive generator.  It makes a  *)
(* generator (dbn_file_creator takes the bit count, the one count and the   *)
(* strict flag from its command line), calls dbn_next, and may call         *)
(* dbn_reset between calls.  A step of the model is one pass of the search  *)
(* loop inside dbn_next.                                                    *)

MaxNBits == 7

MaxResets == 1

MaxBigOut == 1

\* sequence lengths for which the enumeration is run to its end
SmallNBits == (MaxNBits - 2) .. MaxNBits

\* one counts used with the full length of 52: the suit and the value cache files
BigOneBits == {26, 28}

DbnArgs ==
    {<<n, k>> : n \in SmallNBits, k \in 0 .. MaxNBits} \cup {<<SEQUENCE_LENGTH, k>> : k \in BigOneBits}

InitDbn ==
    /\ prog = "dbn"
    /\ \E a \in DbnArgs, strict \in {0, 1} :
           /\ a[2] <= a[1]
           /\ dbn = dbn_make(a[1], a[2], strict)
    /\ dbn_pc = "idle"
    /\ dbn_result = << >>
    /\ dbn_out = << >>
    /\ dbn_resets = 0
    /\ IdleExcept("dbn")

\* the client calls dbn_next
DbnCall ==
    /\ prog = "dbn"
    /\ dbn_pc = "idle"
    /\ (dbn.n_bits_max > MaxNBits) => (Len(dbn_out) < MaxBigOut)
    /\ dbn_pc' = "next"
    /\ UNCHANGED <<dbn_frame, dbn, dbn_result, dbn_out, dbn_resets>>

\* one pass of the while loop of dbn_next; the pass that completes a sequence returns it
DbnPass ==
    /\ prog = "dbn"
    /\ dbn_pc = "next"
    /\ Len(dbn.bit_obj_stack) > 0
    /\ LET r == dbn_next_pass(dbn)
       IN  /\ dbn' = [dbn EXCEPT !.bit_obj_stack = r.bit_obj_stack]
           /\ IF r.returned
              THEN /\ dbn_pc' = "idle"
                   /\ dbn_result' = << r.result_sequence >>
                   /\ dbn_out' = IF r.result_sequence = {} THEN dbn_out
                                 ELSE Append(dbn_out, r.result_sequence)
              ELSE UNCHANGED <<dbn_pc, dbn_result, dbn_out>>
    /\ UNCHANGED <<dbn_frame, dbn_resets>>

\* the while loop of dbn_next finds the stack empty: the call returns 0
DbnExhausted ==
    /\ prog = "dbn"
    /\ dbn_pc = "next"
    /\ Len(dbn.bit_obj_stack) = 0
    /\ dbn_pc' = "idle"
    /\ dbn_result' = << {} >>
    /\ UNCHANGED <<dbn_frame, dbn, dbn_out, dbn_resets>>

\* the client calls dbn_reset
DbnReset ==
    /\ prog = "dbn"
    /\ dbn_pc = "idle"
    /\ dbn_resets < MaxResets
    /\ dbn' = dbn_reset(dbn)
    /\ dbn_result' = << >>
    /\ dbn_out' = << >>
    /\ dbn_resets' = dbn_resets + 1
    /\ UNCHANGED <<dbn_frame, dbn_pc>>

NextDbn == DbnCall \/ DbnPass \/ DbnExhausted \/ DbnReset

SpecDbn == InitDbn /\ [][NextDbn]_vars

\* the window length that goes with a sequence length n: the least w with 2^w >= n
WindowLength(n) == CHOOSE w \in 1 .. 6 : Pow2(w) >= n /\ Pow2(w - 1) < n

\* C2: every non-zero value returned by dbn_next for a generator made with a target
\* population k > 0 lies within the low n_bits_max bits, has exactly k set bits and has
\* pairwise distinct cyclic windows (52 windows of 6 bits when n_bits_max = 52); under
\* the strict flag none of its cyclic windows is all-zero or all-one.
C2_ReturnedValuesAreValid ==
    (prog = "dbn" /\ dbn.n_one_bits > 0) =>
        \A p \in 1 .. Len(dbn_out) :
            LET v == dbn_out[p]
                n == dbn.n_bits_max
            IN  /\ v # {}
                /\ v \subseteq 0 .. (n - 1)
                /\ Cardinality(v) = dbn.n_one_bits
                /\ WindowsDistinct(v, n, WindowLength(n))
                /\ (dbn.subseq_not_all_the_same_bits # 0) => ~HasUniformWindow(v, n, WindowLength(n))

\* a 52-bit generator with target 26 under the strict flag has returned a value
C2_Witness ==
    /\ prog = "dbn"
    /\ dbn.n_bits_max = 52
    /\ dbn.n_one_bits = 26
    /\ dbn.subseq_not_all_the_same_bits # 0
    /\ Len(dbn_out) >= 1

\* s is a bracelet-valid n-bit sequence with k set bits (any number when k = 0),
\* without a uniform window when the strict flag is set
IsBraceletValid(s, n, k, strict) ==
    /\ s \subseteq 0 .. (n - 1)
    /\ (k # 0) => (Cardinality(s) = k)
    /\ WindowsDistinct(s, n, WindowLength(n))
    /\ (strict # 0) => ~HasUniformWindow(s, n, WindowLength(n))

\* C3: between dbn_make (or dbn_reset) and the first 0 returned by dbn_next, the values
\* returned are exactly the bracelet-valid n-bit sequences with k set bits (of any
\* population when k = 0, without uniform windows under the strict flag), and no value
\* is returned twice.
C3_EnumerationCompleteOnce ==
    (prog = "dbn") =>
        LET n      == dbn.n_bits_max
            k      == dbn.n_one_bits
            strict == dbn.subseq_not_all_the_same_bits
        IN  /\ \A p, q \in 1 .. Len(dbn_out) : (p # q) => (dbn_out[p] # dbn_out[q])
            /\ \A p \in 1 .. Len(dbn_out) : IsBraceletValid(dbn_out[p], n, k, strict)
            /\ (dbn_pc = "idle" /\ dbn_result = << {} >>) =>
                   \A s \in SUBSET (0 .. (n - 1)) :
                       IsBraceletValid(s, n, k, strict) =>
                           \E p \in 1 .. Len(dbn_out) : dbn_out[p] = s

\* after a dbn_reset the generator has again returned several
\* values of a given population and then 0
C3_Witness ==
    /\ prog = "dbn"
    /\ dbn_pc = "idle"
    /\ dbn_result = << {} >>
    /\ dbn.n_one_bits > 0
    /\ dbn_resets = 1
    /\ Len(dbn_out) >= 2

-----------------------------------------------------------------------------
(* Compound search: ultimate_search.c *)

N_BITS_MAX == 52

NUMBER_OF_CARDS_IN_A_SUIT == 13

NUMBER_OF_CARDS_IN_TWO_SUITS == 26

\* seq_set.sequence_mask = ((1LL << seq_set.n_bits_max) - 1LL)
sequence_mask == 0 .. (N_BITS_MAX - 1)

\* ~w
Not64(w) == BitRange \ w

\* unsigned int count_set_bits_64(value, max_bit_count): counting stops one past the maximum
count_set_bits_64(value, max_bit_count) ==
    IF Cardinality(value) > max_bit_count THEN max_bit_count + 1 ELSE Cardinality(value)

\* variant of the overlap filter that tests the one-one count only
is_valid_suit_seq_overlap_ones_only(seq0, seq1, mask) ==
    /\ count_set_bits_64(seq0 \cap seq1, NUMBER_OF_CARDS_IN_A_SUIT) = 13
    /\ seq0 # seq1

\* int is_valid_suit_seq_overlap(seq0, seq1, sequence_mask)
is_valid_suit_seq_overlap(seq0, seq1, mask) ==
    LET inv_seq0 == Not64(seq0) \cap mask
        inv_seq1 == Not64(seq1) \cap mask
    IN  /\ count_set_bits_64(seq0 \cap seq1, NUMBER_OF_CARDS_IN_A_SUIT) = 13
        /\ seq0 # seq1
        /\ count_set_bits_64(inv_seq0 \cap inv_seq1, NUMBER_OF_CARDS_IN_A_SUIT) = 13
        /\ count_set_bits_64(inv_seq0 \cap seq1, NUMBER_OF_CARDS_IN_A_SUIT) = 13
        /\ count_set_bits_64(seq0 \cap inv_seq1, NUMBER_OF_CARDS_IN_A_SUIT) = 13

\* int has_long_uniform_subsequence(uint64_t seq)
has_long_uniform_subsequence(seq) ==
    LET wseq == seq \cup Shl(seq, 52)
    IN  \E i \in 0 .. 51 :
            \/ AndMask(Shr(wseq, i), 63) = 63
            \/ AndMask(Not64(Shr(wseq, i)), 63) = 63

\* variant of the odd filter that asks for seven even and six odd positions in every suit
is_valid_odd_sequence_exchanged(ss) ==
    \A suit_bits \in {ss.spade_bits, ss.heart_bits, ss.club_bits, ss.diamond_bits} :
        /\ count_set_bits_64(suit_bits \ ss.odd_sequence, 7) = 7
        /\ count_set_bits_64(suit_bits \cap ss.odd_sequence, 6) = 6

\* int is_valid_odd_sequence(seq_set_ptr): six even and seven odd positions in every suit
is_valid_odd_sequence(ss) ==
    LET inv_odd_sequence == Not64(ss.odd_sequence) \cap sequence_mask
    IN  \A suit_bits \in {ss.spade_bits, ss.heart_bits, ss.club_bits, ss.diamond_bits} :
            /\ count_set_bits_64(suit_bits \cap inv_odd_sequence, 6) = 6
            /\ count_set_bits_64(suit_bits \cap ss.odd_sequence, 7) = 7

\* void get_overlap_counts(seq0, seq1, sequence_mask, zero_zero_count_ptr)
get_overlap_counts(seq0, seq1, mask) ==
    count_set_bits_64((Not64(seq0) \cap mask) \cap (Not64(seq1) \cap mask),
                      NUMBER_OF_CARDS_IN_A_SUIT)

\* int is_valid_c7k_sequence(seq_set_ptr)
is_valid_c7k_sequence(ss) ==
    /\ get_overlap_counts(ss.odd_sequence, ss.c7k_sequence, sequence_mask) = 12
    /\ get_overlap_counts(ss.red_sequence, ss.c7k_sequence, sequence_mask) = 12
    /\ get_overlap_counts(ss.cd_sequence, ss.c7k_sequence, sequence_mask) = 12
    /\ get_overlap_counts(ss.hc_sequence, ss.c7k_sequence, sequence_mask) = 12

\* is_valid_deck_sequence: the index built from bit i of the four sequences
deck_sequence_index(ss, i) ==
    LET bit(w) == IF i \in w THEN 1 ELSE 0
    IN  ((bit(ss.red_sequence) * 2 + bit(ss.cd_sequence)) * 2 + bit(ss.odd_sequence)) * 2
        + bit(ss.c7k_sequence)

\* variant of the histogram test that accepts every histogram
is_valid_deck_sequence_any(ss) == TRUE

\* int is_valid_deck_sequence(seq_set_ptr)
is_valid_deck_sequence(ss) ==
    LET hit_count_array ==
            [index \in 0 .. 15 |->
                Cardinality({i \in 0 .. (N_BITS_MAX - 1) : deck_sequence_index(ss, i) = index})]
    IN  /\ hit_count_array[0] = 3  /\ hit_count_array[1] = 3
        /\ hit_count_array[2] = 3  /\ hit_count_array[3] = 4
        /\ hit_count_array[4] = 3  /\ hit_count_array[5] = 3
        /\ hit_count_array[6] = 3  /\ hit_count_array[7] = 4
        /\ hit_count_array[8] = 3  /\ hit_count_array[9] = 3
        /\ hit_count_array[10] = 3 /\ hit_count_array[11] = 4
        /\ hit_count_array[12] = 3 /\ hit_count_array[13] = 3
        /\ hit_count_array[14] = 3 /\ hit_count_array[15] = 4

\* variant of the check of the derived hc sequence that accepts every sequence
hc_sequence_is_valid_unchecked(hc_sequence) == TRUE

\* ultimate_search_main: is_valid_flag = bit_has_unique_subsequences(seq_set.hc_sequence)
hc_sequence_is_valid(hc_sequence) == bit_has_unique_subsequences(hc_sequence)

\* variant of f64_next that rewinds the cursor when it returns 0 at the end of the array
f64_next_rewinding(file, seq_index) ==
    IF seq_index < Len(file)
    THEN [seq_value |-> file[seq_index + 1], seq_index |-> seq_index + 1]
    ELSE [seq_value |-> {}, seq_index |-> 0]

\* uint64_t f64_next(f64_ptr) on a handle over the array file with cursor seq_index
f64_next(file, seq_index) ==
    IF seq_index < Len(file)
    THEN [seq_value |-> file[seq_index + 1], seq_index |-> seq_index + 1]
    ELSE [seq_value |-> {}, seq_index |-> seq_index]

\* a reset that leaves the cursor where it is
f64_reset_kept(seq_index) == seq_index

\* void f64_reset(f64_handle_t f64_handle): f64_ptr->seq_index = 0
f64_reset(seq_index) == 0

\* a skip loop that runs once more than the start count when the count is not 0
f64_skip_one_more(file, seq_index, count) ==
    IF count = 0 THEN seq_index
    ELSE IF seq_index + count + 1 < Len(file) THEN seq_index + count + 1
    ELSE Len(file)

\* count calls of f64_next whose values are discarded
f64_skip(file, seq_index, count) ==
    IF seq_index + count < Len(file) THEN seq_index + count
    ELSE IF seq_index < Len(file) THEN Len(file) ELSE seq_index

\* the body of the cd loop after the overlap filter has passed: the suit masks, the hc
\* sequence and its tests; found tells whether the odd loop is entered
suit_sequences(ss) ==
    LET inv_red_sequence == Not64(ss.red_sequence) \cap sequence_mask
        inv_cd_sequence  == Not64(ss.cd_sequence) \cap sequence_mask
        diamond_bits     == ss.red_sequence \cap ss.cd_sequence
        spade_bits       == inv_red_sequence \cap inv_cd_sequence
        club_bits        == inv_red_sequence \cap ss.cd_sequence
        heart_bits       == ss.red_sequence \cap inv_cd_sequence
        hc_sequence      == club_bits \cup heart_bits
        s1 == [ss EXCEPT !.diamond_bits = diamond_bits]
        s2 == [s1 EXCEPT !.spade_bits = spade_bits]
        s3 == [s2 EXCEPT !.club_bits = club_bits]
        s4 == [s3 EXCEPT !.heart_bits = heart_bits]
        s5 == [s4 EXCEPT !.hc_sequence = hc_sequence]
        diamond_again    == Not64(spade_bits \cup heart_bits \cup club_bits) \cap sequence_mask
    IN
    IF count_set_bits_64(diamond_bits, NUMBER_OF_CARDS_IN_A_SUIT) # 13
    THEN [found |-> FALSE, seq_set |-> s1]
    ELSE IF count_set_bits_64(spade_bits, NUMBER_OF_CARDS_IN_A_SUIT) # NUMBER_OF_CARDS_IN_A_SUIT
    THEN [found |-> FALSE, seq_set |-> s2]
    ELSE IF count_set_bits_64(club_bits, NUMBER_OF_CARDS_IN_A_SUIT) # NUMBER_OF_CARDS_IN_A_SUIT
    THEN [found |-> FALSE, seq_set |-> s3]
    ELSE IF count_set_bits_64(heart_bits, NUMBER_OF_CARDS_IN_A_SUIT) # NUMBER_OF_CARDS_IN_A_SUIT
    THEN [found |-> FALSE, seq_set |-> s4]
    ELSE IF count_set_bits_64(hc_sequence, NUMBER_OF_CARDS_IN_TWO_SUITS) # 26
    THEN [found |-> FALSE, seq_set |-> s5]
    ELSE IF ~hc_sequence_is_valid(hc_sequence)
    THEN [found |-> FALSE, seq_set |-> s5]
    ELSE [found |-> TRUE,
          seq_set |-> [s5 EXCEPT !.diamond_bits = diamond_again,
                                 !.red_sequence = heart_bits \cup diamond_again,
                                 !.cd_sequence = club_bits \cup diamond_again,
                                 !.hc_sequence = club_bits \cup heart_bits]]

-----------------------------------------------------------------------------
(* Specification SpecOverlap: the overlap filter applied to two cache values *)

\* the contents of the suit cache file (dbn_52_26.bin), ended by its stored 0
SuitFile ==
    << bit_get_integer_seq(Dbn26First), bit_get_integer_seq(SearchRed),
       bit_get_integer_seq(SearchCd), bit_get_integer_seq(DeckCd),
       bit_get_integer_seq(DeckRed), bit_get_integer_seq(Search2Cd),
       bit_get_integer_seq(Search2Red), {} >>

\* the contents of the value cache file (dbn_52_28.bin), ended by its stored 0
ValueFile ==
    << bit_get_integer_seq(Dbn28First), bit_get_integer_seq(SearchOdd),
       bit_get_integer_seq(SearchC7k), bit_get_integer_seq(SearchC7kUneven),
       bit_get_integer_seq(DeckOdd), bit_get_integer_seq(DeckC7k),
       bit_get_integer_seq(Search2C7k), bit_get_integer_seq(Search2Odd), {} >>

\* the values the filter is tried on: those of both files and a rotated one
OverlapPool ==
    {SuitFile[p] : p \in 1 .. Len(SuitFile)} \cup {ValueFile[p] : p \in 1 .. Len(ValueFile)}
    \cup {bit_get_integer_seq(Dbn28Rotated)}

InitOverlap ==
    /\ prog = "overlap"
    /\ ov_seq \in OverlapPool \X OverlapPool
    /\ ov_result = << >>
    /\ IdleExcept("overlap")

OverlapCheck ==
    /\ prog = "overlap"
    /\ ov_result = << >>
    /\ ov_result' = << is_valid_suit_seq_overlap(ov_seq[1], ov_seq[2], sequence_mask) >>
    /\ UNCHANGED <<ov_frame, ov_seq>>

NextOverlap == OverlapCheck

SpecOverlap == InitOverlap /\ [][NextOverlap]_vars

\* C6: for every pair (HD, CD) that passes the overlap filter, each of the four masks
\* HD & CD, HD & ~CD, ~HD & CD and ~HD & ~CD, restricted to the low 52 bits, has exactly
\* 13 set bits.
C6_OverlapMasksHaveThirteen ==
    (prog = "overlap" /\ ov_result = << TRUE >>) =>
        LET hd  == ov_seq[1]
            cd  == ov_seq[2]
            low == 0 .. 51
        IN  /\ Cardinality((hd \cap cd) \cap low) = 13
            /\ Cardinality((hd \ cd) \cap low) = 13
            /\ Cardinality((cd \ hd) \cap low) = 13
            /\ Cardinality(low \ (hd \cup cd)) = 13

\* the filter has accepted a pair
C6_Witness == prog = "overlap" /\ ov_result = << TRUE >>

-----------------------------------------------------------------------------
(* Specification SpecSearch: ultimate_search_main run on the two cache files with  *)
(* the 8K and 4T solvers not selected (the default of the program arguments).      *)
(* A step of the model is one pass of one of the nested loops.                     *)

MaxStart == 2

\* the start counts tried: no skip, and the largest count
StartCounts == {0, MaxStart}

Handles == {"red", "cd", "odd", "c7k"}

\* ultimate_struct_t seq_set = { 0LL, ... }
seq_set_zero ==
    [red_sequence |-> {}, cd_sequence |-> {}, hc_sequence |-> {}, spade_bits |-> {},
     heart_bits |-> {}, club_bits |-> {}, diamond_bits |-> {}, odd_sequence |-> {},
     c7k_sequence |-> {}]

\* _tmain: program_args before the arguments are read (every option flag is off)
program_args_default ==
    [value_sequence_modifier_flag |-> FALSE, suit_sequence_modifier_flag |-> FALSE,
     c8k_sequence_flag |-> FALSE, sevens_apart_flag |-> FALSE, c4t_sequence_flag |-> FALSE]

InitSearch ==
    /\ prog = "search"
    /\ s_pc = "start"
    /\ o_args = program_args_default
    /\ s_index = [h \in Handles |-> 0]
    /\ s_args \in [Handles -> StartCounts]
    /\ s_start = s_args
    /\ s_entries = [h \in Handles |-> << >>]
    /\ seq_set = seq_set_zero
    /\ s_out = << >>
    /\ IdleExcept("search")

\* "Optionally skip some red sequences."
SearchStart ==
    /\ prog = "search"
    /\ s_pc = "start"
    /\ s_pc' = "red"
    /\ s_index' = [s_index EXCEPT !["red"] = f64_skip(SuitFile, @, s_start["red"])]
    /\ seq_set' = IF s_start["red"] > 0
                  THEN [seq_set EXCEPT !.red_sequence =
                           f64_next(SuitFile, s_index'["red"] - 1).seq_value]
                  ELSE seq_set
    /\ s_start' = [s_start EXCEPT !["red"] = 0]
    /\ s_entries' = [s_entries EXCEPT !["red"] = Append(@, s_index'["red"])]
    /\ UNCHANGED <<search_frame, s_out, s_args>>

\* one pass of the do-while loop that reads a red sequence, whose condition is
\* "has_long_uniform_subsequence(red) || (red == 0LL)"; when the loop is left, a red
\* sequence of 0 leaves the main loop (the four handles are deleted and the function
\* returns), any other is taken: the cd generator is reset and the cd start count applied
SearchRedPass ==
    /\ prog = "search"
    /\ s_pc = "red"
    /\ LET r  == f64_next(SuitFile, s_index["red"])
           ss == [seq_set EXCEPT !.red_sequence = r.seq_value]
           cd == f64_skip(SuitFile, f64_reset(s_index["cd"]), s_start["cd"])
       IN  IF has_long_uniform_subsequence(r.seq_value) \/ r.seq_value = {}
           THEN /\ s_index' = [s_index EXCEPT !["red"] = r.seq_index]
                /\ seq_set' = ss
                /\ UNCHANGED <<s_pc, s_start, s_entries>>
           ELSE IF r.seq_value = {}
           THEN /\ s_index' = [s_index EXCEPT !["red"] = r.seq_index]
                /\ seq_set' = ss
                /\ s_pc' = "returned"
                /\ UNCHANGED <<s_start, s_entries>>
           ELSE /\ s_index' = [s_index EXCEPT !["red"] = r.seq_index, !["cd"] = cd]
                /\ seq_set' = IF s_start["cd"] > 0
                              THEN [ss EXCEPT !.cd_sequence = f64_next(SuitFile, cd - 1).seq_value]
                              ELSE ss
                /\ s_start' = [s_start EXCEPT !["cd"] = 0]
                /\ s_entries' = [s_entries EXCEPT !["cd"] = Append(@, cd)]
                /\ s_pc' = "cd"
    /\ UNCHANGED <<search_frame, s_out, s_args>>

\* one pass of the cd loop
SearchCdPass ==
    /\ prog = "search"
    /\ s_pc = "cd"
    /\ LET r   == f64_next(SuitFile, s_index["cd"])
           ss  == [seq_set EXCEPT !.cd_sequence = r.seq_value]
           t   == suit_sequences(ss)
           odd == f64_skip(ValueFile, f64_reset(s_index["odd"]), s_start["odd"])
       IN  IF r.seq_value = {}
           THEN /\ s_pc' = "red"
                /\ s_index' = [s_index EXCEPT !["cd"] = r.seq_index]
                /\ seq_set' = ss
                /\ UNCHANGED <<s_start, s_entries>>
           ELSE IF ~is_valid_suit_seq_overlap(ss.red_sequence, ss.cd_sequence, sequence_mask)
           THEN /\ s_index' = [s_index EXCEPT !["cd"] = r.seq_index]
                /\ seq_set' = ss
                /\ UNCHANGED <<s_pc, s_start, s_entries>>
           ELSE IF ~t.found
           THEN /\ s_index' = [s_index EXCEPT !["cd"] = r.seq_index]
                /\ seq_set' = t.seq_set
                /\ UNCHANGED <<s_pc, s_start, s_entries>>
           ELSE /\ s_index' = [s_index EXCEPT !["cd"] = r.seq_index, !["odd"] = odd]
                /\ seq_set' = IF s_start["odd"] > 0
                              THEN [t.seq_set EXCEPT !.odd_sequence =
                                       f64_next(ValueFile, odd - 1).seq_value]
                              ELSE t.seq_set
                /\ s_start' = [s_start EXCEPT !["odd"] = 0]
                /\ s_entries' = [s_entries EXCEPT !["odd"] = Append(@, odd)]
                /\ s_pc' = "odd"
    /\ UNCHANGED <<search_frame, s_out, s_args>>

\* one pass of the odd loop
SearchOddPass ==
    /\ prog = "search"
    /\ s_pc = "odd"
    /\ LET r   == f64_next(ValueFile, s_index["odd"])
           ss  == [seq_set EXCEPT !.odd_sequence = r.seq_value]
           c7k == f64_skip(ValueFile, f64_reset(s_index["c7k"]), s_start["c7k"])
       IN  IF r.seq_value = {}
           THEN /\ s_pc' = "cd"
                /\ s_index' = [s_index EXCEPT !["odd"] = r.seq_index]
                /\ seq_set' = ss
                /\ UNCHANGED <<s_start, s_entries>>
           ELSE IF ~is_valid_odd_sequence(ss)
           THEN /\ s_index' = [s_index EXCEPT !["odd"] = r.seq_index]
                /\ seq_set' = ss
                /\ UNCHANGED <<s_pc, s_start, s_entries>>
           ELSE /\ s_index' = [s_index EXCEPT !["odd"] = r.seq_index, !["c7k"] = c7k]
                /\ seq_set' = IF s_start["c7k"] > 0
                              THEN [ss EXCEPT !.c7k_sequence =
                                       f64_next(ValueFile, c7k - 1).seq_value]
                              ELSE ss
                /\ s_start' = [s_start EXCEPT !["c7k"] = 0]
                /\ s_entries' = [s_entries EXCEPT !["c7k"] = Append(@, c7k)]
                /\ s_pc' = "c7k"
    /\ UNCHANGED <<search_frame, s_out, s_args>>

\* one pass of the 7k loop; a bundle that passes the filters is written
SearchC7kPass ==
    /\ prog = "search"
    /\ s_pc = "c7k"
    /\ LET r  == f64_next(ValueFile, s_index["c7k"])
           ss == [seq_set EXCEPT !.c7k_sequence = r.seq_value]
       IN  /\ s_index' = [s_index EXCEPT !["c7k"] = r.seq_index]
           /\ seq_set' = ss
           /\ s_pc' = IF r.seq_value = {} THEN "odd" ELSE "c7k"
           /\ s_out' = IF /\ r.seq_value # {}
                          /\ is_valid_c7k_sequence(ss)
                          /\ is_valid_deck_sequence(ss)
                       THEN Append(s_out, [c7k |-> ss.c7k_sequence, odd |-> ss.odd_sequence,
                                           red |-> ss.red_sequence, cd |-> ss.cd_sequence,
                                           hc |-> ss.hc_sequence])
                       ELSE s_out
    /\ UNCHANGED <<search_frame, s_start, s_args, s_entries>>

NextSearch == SearchStart \/ SearchRedPass \/ SearchCdPass \/ SearchOddPass \/ SearchC7kPass

SpecSearch == InitSearch /\ [][NextSearch]_vars

\* the number of the 52 positions at which the four sequences carry the 4-bit code c
JointCount(hd, cd, odd, c7k, c) ==
    Cardinality({p \in 0 .. 51 :
        /\ (p \in hd) <=> ((c \div 8) % 2 = 1)
        /\ (p \in cd) <=> ((c \div 4) % 2 = 1)
        /\ (p \in odd) <=> ((c \div 2) % 2 = 1)
        /\ (p \in c7k) <=> (c % 2 = 1)})

\* C5: for every bundle the compound search writes, the joint histogram of the code
\* (HD<<3 | CD<<2 | ODD<<1 | 7K) over the 52 positions is 3,3,3,4 in each group of four
\* codes: 4 for the codes with ODD and 7K both set, 3 for all others.
C5_EmittedHistogram ==
    (prog = "search") =>
        \A e \in 1 .. Len(s_out) : \A c \in 0 .. 15 :
            JointCount(s_out[e].red, s_out[e].cd, s_out[e].odd, s_out[e].c7k, c)
                = (IF c % 4 = 3 THEN 4 ELSE 3)

\* a bundle has been written
C5_Witness == prog = "search" /\ Len(s_out) >= 1

\* C7: in every bundle the compound search writes, the HC sequence equals HD XOR CD on
\* the 52 positions and is bracelet-valid.
C7_EmittedHcIsXorAndValid ==
    (prog = "search") =>
        \A e \in 1 .. Len(s_out) :
            /\ s_out[e].hc = ((s_out[e].red \ s_out[e].cd) \cup (s_out[e].cd \ s_out[e].red))
                                 \cap (0 .. 51)
            /\ WindowsDistinct(s_out[e].hc, 52, 6)

\* after a bundle was written, a later pair has passed the overlap filter with a derived
\* hc sequence that is not bracelet-valid
C7_Witness ==
    /\ prog = "search"
    /\ Len(s_out) >= 1
    /\ s_pc = "cd"
    /\ Cardinality(seq_set.hc_sequence) = 26
    /\ ~WindowsDistinct(seq_set.hc_sequence, 52, 6)

\* C18: each of the four start counts is applied once, at the first entry into its loop,
\* where it discards that many items of its generator; every later entry into the cd, odd
\* or 7K loop discards nothing, so that the loop starts from item 0 after the reset.
C18_StartCountsAppliedOnce ==
    prog = "search" =>
        \A h \in Handles :
            /\ s_start[h] = IF s_entries[h] = << >> THEN s_args[h] ELSE 0
            /\ s_entries[h] # << >> => s_entries[h][1] = s_args[h]
            /\ \A e \in 2 .. Len(s_entries[h]) : s_entries[h][e] = 0
            /\ h = "red" => Len(s_entries[h]) <= 1

\* the cd, the odd and the 7K loop have each been entered a second time in a run that
\* was started with a count above 0 for every loop
C18_Witness ==
    /\ prog = "search"
    /\ \A h \in {"cd", "odd", "c7k"} : s_args[h] = MaxStart /\ Len(s_entries[h]) >= 2
    /\ s_args["red"] = MaxStart

\* ultimate_search_main is one sequential function: as long as a statement can run, one runs
SearchFairness == WF_vars(NextSearch)

SpecSearchLive == SpecSearch /\ SearchFairness

\* f64_next on the red handle has returned 0: the cursor of the handle is at the end of
\* the cache and the red sequence of seq_set is the 0 just read
RedCacheEnded ==
    /\ prog = "search"
    /\ s_pc = "red"
    /\ s_index["red"] = Len(SuitFile)
    /\ seq_set.red_sequence = {}

\* C17: once f64_next on the red handle has returned 0, the search leaves its main loop,
\* releases its four cache handles and ultimate_search_main returns.
C17_SearchReturnsAfterRedEnd ==
    RedCacheEnded ~> (prog = "search" /\ s_pc = "returned")

\* the items of a cache file that a loop reads before f64_next returns 0
ItemCount(file) ==
    CHOOSE n \in 0 .. Len(file) :
        /\ \A p \in 1 .. n : file[p] # {}
        /\ n = Len(file) \/ file[n + 1] = {}

\* the index tuples of seq extended by every index 1 .. m, in the order of nested loops
NestedLoop(seq, m) ==
    [n \in 1 .. (Len(seq) * m) |-> Append(seq[((n - 1) \div m) + 1], ((n - 1) % m) + 1)]

\* seq_set once the items with the indices q (red, cd, odd, 7k, as far as given) are read
SeqSetAt(q) ==
    LET s2 == [seq_set_zero EXCEPT !.red_sequence = SuitFile[q[1]],
                                   !.cd_sequence = SuitFile[q[2]]]
        s3 == [suit_sequences(s2).seq_set EXCEPT !.odd_sequence = ValueFile[q[3]]]
    IN  IF Len(q) = 2 THEN s2
        ELSE IF Len(q) = 3 THEN s3
        ELSE [s3 EXCEPT !.c7k_sequence = ValueFile[q[4]]]

\* the bundles of the run without start counts, listed without running the loops: the
\* index tuples in the order of the nested loops that pass the filter of every level
ZeroRunBundles ==
    LET reds    == SelectSeq([i \in 1 .. ItemCount(SuitFile) |-> << i >>],
                             LAMBDA q : ~has_long_uniform_subsequence(SuitFile[q[1]]))
        pairs   == SelectSeq(NestedLoop(reds, ItemCount(SuitFile)),
                             LAMBDA q : /\ is_valid_suit_seq_overlap(SuitFile[q[1]],
                                                                     SuitFile[q[2]],
                                                                     sequence_mask)
                                        /\ suit_sequences(SeqSetAt(q)).found)
        triples == SelectSeq(NestedLoop(pairs, ItemCount(ValueFile)),
                             LAMBDA q : is_valid_odd_sequence(SeqSetAt(q)))
        quads   == SelectSeq(NestedLoop(triples, ItemCount(ValueFile)),
                             LAMBDA q : /\ is_valid_c7k_sequence(SeqSetAt(q))
                                        /\ is_valid_deck_sequence(SeqSetAt(q)))
    IN  [n \in 1 .. Len(quads) |->
            LET ss == SeqSetAt(quads[n])
            IN  [c7k |-> ss.c7k_sequence, odd |-> ss.odd_sequence, red |-> ss.red_sequence,
                 cd |-> ss.cd_sequence, hc |-> ss.hc_sequence]]

\* C19: the bundles written by a run with start counts (r, c, o, k) are a contiguous
\* part of the bundles written by the run with all start counts 0, in the same order,
\* and once the red cache is read to its end they are a suffix of them; the run with all
\* start counts 0 writes all of them.
C19_BundlesAreSuffixOfZeroRun ==
    prog = "search" =>
        \E zero \in {ZeroRunBundles} :
            /\ \E k \in 0 .. (Len(zero) - Len(s_out)) :
                   /\ s_out = SubSeq(zero, k + 1, k + Len(s_out))
                   /\ RedCacheEnded => k + Len(s_out) = Len(zero)
            /\ (RedCacheEnded /\ \A h \in Handles : s_args[h] = 0) => s_out = zero

\* a run with start counts has read the red cache to its end and has written some of the
\* bundles of the run without start counts, not all
C19_Witness ==
    /\ RedCacheEnded
    /\ \E h \in Handles : s_args[h] > 0
    /\ Len(s_out) > 0
    /\ Len(s_out) < Len(ZeroRunBundles)

-----------------------------------------------------------------------------
(* Deck realizer: umake_decks.c and deck_utilities.c.  A card is the int   *)
(* (suit << 8) | value; the arrays of deck_info_t are functions on 0..63.   *)

SUIT_SPADE == 0

SUIT_CLUB == 1

SUIT_HEART == 2

SUIT_DIAMOND == 3

VALUE_ACE_OR_THREE == 103

VALUE_FOUR_OR_SIX == 46

VALUE_EIGHT_OR_TEN == 81

VALUE_JACK_OR_KING == 113

TINY_DECK_SCORE == 0

SEQ_A6 == 1

SEQ_A7 == 2

SEQ_27 == 4

SEQ_28 == 8

SEQ_38 == 16

SEQ_39 == 32

SEQ_49 == 64

SEQ_4T == 128

SEQ_5T == 256

SEQ_5J == 512

SEQ_6J == 1024

SEQ_6Q == 2048

SEQ_7Q == 4096

SEQ_EV == 8192

SEQ_HD == 16384

SEQ_CD == 32768

SEQ_HC == 65536

SEQ_M34 == 131072

SEQ_M46 == 262144

SEQ_M47 == 524288

SEQ_M58 == 1048576

SEQ_M59 == 2097152

SEQ_M6Q == 4194304

SEQ_PR == 8388608

SEQ_FI == 16777216

SEQ_LU == 33554432

\* int deck_array[64]
DECK_ARRAY_LENGTH == 64

\* a C array given by its elements, indexed from 0
CArray(elements) == [i \in 0 .. (Len(elements) - 1) |-> elements[i + 1]]

\* a | b on two non-negative ints
BitOr(a, b) == WordToInt(IntBits(a) \cup IntBits(b))

\* static const int value_lookup_array[16] of get_deck_possibilities
value_lookup_array ==
    CArray(<<2, VALUE_FOUR_OR_SIX, 0, 0, 0, 0, 12, VALUE_EIGHT_OR_TEN,
             VALUE_ACE_OR_THREE, 5, 0, 0, 0, 7, VALUE_JACK_OR_KING, 9>>)

\* void get_deck_possibilities(deck_array_ptr, seq_info_ptr): the pass for index i reads
\* bit n_bits_max - 1 - i of every sequence; the cells from n_bits_max on are kept
get_deck_possibilities(deck_array, si) ==
    [i \in 0 .. (DECK_ARRAY_LENGTH - 1) |->
        IF i >= si.n_bits_max THEN deck_array[i]
        ELSE LET bit(w) == IF (si.n_bits_max - 1 - i) \in w THEN 1 ELSE 0
                 suit == bit(si.red_seq) * 2 + bit(si.cd_seq)
                 value_code == bit(si.odd_seq) * 8 + bit(si.c7k_seq) * 4
                               + bit(si.c8k_seq) * 2 + bit(si.c4t_seq)
             IN  suit * 256 + value_lookup_array[value_code]]

\* int deck_is_value_in_array(int value, int * array_ptr, int array_length)
deck_is_value_in_array(value, array, array_length) ==
    \E i \in 0 .. (array_length - 1) : value = array[i]

\* uint64_t deck_get_sequence_from_deck(value_ptr, value_length, deck_info_ptr): the card
\* at index i is shifted in first-to-last, so it ends on bit deck_length - 1 - i
deck_get_sequence_from_deck(value_array, value_length, di) ==
    {di.deck_length - 1 - i : i \in
        {j \in 0 .. (di.deck_length - 1) :
            deck_is_value_in_array(di.temp_deck_array[j] % 256, value_array, value_length)}}
    \cap BitRange

\* the value arrays of test_deck_for_special_sequences with their SEQ_ bits, in the order
\* of the CHECK_FOR_BRACELET_SEQUENCE lines
consecutive_value_arrays ==
    << <<CArray(<<2, 3, 4, 5, 6, 7>>), SEQ_27>>,
       <<CArray(<<2, 3, 4, 5, 6, 7, 8>>), SEQ_28>>,
       <<CArray(<<3, 4, 5, 6, 7, 8>>), SEQ_38>>,
       <<CArray(<<3, 4, 5, 6, 7, 8, 9>>), SEQ_39>>,
       <<CArray(<<4, 5, 6, 7, 8, 9>>), SEQ_49>>,
       <<CArray(<<5, 6, 7, 8, 9, 10>>), SEQ_5T>>,
       <<CArray(<<5, 6, 7, 8, 9, 10, 11>>), SEQ_5J>>,
       <<CArray(<<6, 7, 8, 9, 10, 11>>), SEQ_6J>>,
       <<CArray(<<6, 7, 8, 9, 10, 11, 12>>), SEQ_6Q>>,
       <<CArray(<<7, 8, 9, 10, 11, 12>>), SEQ_7Q>> >>

\* the value arrays tested only when find_all_sequences_flag is set
special_value_arrays ==
    << <<CArray(<<3, 4, 6, 8, 9, 12>>), SEQ_M34>>,
       <<CArray(<<4, 5, 6, 8, 10, 12>>), SEQ_M46>>,
       <<CArray(<<4, 5, 6, 7, 8, 10, 12>>), SEQ_M47>>,
       <<CArray(<<5, 6, 7, 8, 10, 12>>), SEQ_M58>>,
       <<CArray(<<5, 6, 7, 8, 9, 10, 12>>), SEQ_M59>>,
       <<CArray(<<6, 7, 8, 9, 10, 12>>), SEQ_M6Q>>,
       <<CArray(<<2, 3, 5, 7, 11, 13>>), SEQ_PR>>,
       <<CArray(<<1, 2, 3, 5, 8, 13>>), SEQ_FI>>,
       <<CArray(<<1, 2, 3, 4, 7, 11>>), SEQ_LU>> >>

\* the test of the macro CHECK_FOR_BRACELET_SEQUENCE(ARRAY_NAME, SEQ_BIT): is_valid_flag
CHECK_FOR_BRACELET_SEQUENCE(value_array, di) ==
    bit_has_unique_subsequences(
        deck_get_sequence_from_deck(value_array, Cardinality(DOMAIN value_array), di))

\* int test_deck_for_special_sequences(deck_info_ptr): the returned sequence_type_bits
\* and the sequence_count it stores in the deck_info_t
test_deck_for_special_sequences(di) ==
    LET checks == IF di.find_all_sequences_flag
                  THEN consecutive_value_arrays \o special_value_arrays
                  ELSE consecutive_value_arrays
        found  == {c \in 1 .. Len(checks) : CHECK_FOR_BRACELET_SEQUENCE(checks[c][1], di)}
        input_bits == UNION {IntBits(b) : b \in
                          {SEQ_A6, SEQ_A7, SEQ_4T, SEQ_EV, SEQ_HD, SEQ_CD, SEQ_HC}}
    IN  [sequence_type_bits |->
             WordToInt(input_bits \cup UNION {IntBits(checks[c][2]) : c \in found}),
         sequence_count |-> Cardinality(found)]

\* the penalty added by the switch on value_position_diff, summed over the passes in
\* which the switch ran with each of the values 1..6; count(d) is that number of passes
dup_count_of(count(_)) ==
    32 * count(1) + 16 * count(2) + 8 * count(3) + 4 * count(4) + 2 * count(5) + count(6)

\* int deck_get_dup_count_score(deck_info_ptr).  The value read from
\* last_value_position_array in a pass is the highest earlier index holding the same
\* card_value; in the second loop the array still holds what the first loop left (the
\* highest index of each value) until a pass of the second loop overwrites it, and
\* value_position_diff keeps its previous value in a pass that does not assign it.
deck_get_dup_count_score(di) ==
    LET card_value(i) == di.temp_deck_array[i] % 16
        highest(set) == CHOOSE j \in set : \A k \in set : k <= j
        earlier(i) == {j \in 0 .. (i - 1) : card_value(j) = card_value(i)}
        first_loop_last(i) == IF earlier(i) = {} THEN -1 ELSE highest(earlier(i))
        paired == {i \in 0 .. (di.deck_length - 1) : first_loop_last(i) >= 0}
        first_loop_diff == IF paired = {} THEN 0
                           ELSE highest(paired) - first_loop_last(highest(paired))
        second_loop_last(i) ==
            IF earlier(i) # {} THEN highest(earlier(i))
            ELSE highest({j \in 0 .. (di.deck_length - 1) : card_value(j) = card_value(i)})
        value_position_diff[i \in 0 .. 4] ==
            IF second_loop_last(i) > 5
            THEN IF second_loop_last(i) > 46
                 THEN i - (second_loop_last(i) - 52)
                 ELSE second_loop_last(i) - i
            ELSE IF i = 0 THEN first_loop_diff ELSE value_position_diff[i - 1]
        count(d) == Cardinality({i \in paired : i - first_loop_last(i) = d})
                    + Cardinality({i \in 0 .. 4 : value_position_diff[i] = d})
    IN  65535 - dup_count_of(count)

\* variant of get_deck_score that weights the number of sequences by 8 bits only
get_deck_score_shift_8(di) ==
    LET sequence_type_bits == test_deck_for_special_sequences(di).sequence_type_bits
    IN  BitOr(bit_count_set_bits(sequence_type_bits) * Pow2(8), deck_get_dup_count_score(di))

\* int get_deck_score(deck_info_ptr)
get_deck_score(di) ==
    LET sequence_type_bits == test_deck_for_special_sequences(di).sequence_type_bits
    IN  BitOr(bit_count_set_bits(sequence_type_bits) * Pow2(16), deck_get_dup_count_score(di))

\* the sixteen pairs of cells find_best_deck_order can swap, as <<marker, suit>>, in the
\* order of the bits of the loop counter: xa3s, x46s, x8ts, xjks, xa3h, x46h, x8th, xjkh,
\* xa3c, x46c, x8tc, xjkc, xa3d, x46d, x8td, xjkd
swap_slots ==
    CArray(<< <<VALUE_ACE_OR_THREE, SUIT_SPADE>>,   <<VALUE_FOUR_OR_SIX, SUIT_SPADE>>,
              <<VALUE_EIGHT_OR_TEN, SUIT_SPADE>>,   <<VALUE_JACK_OR_KING, SUIT_SPADE>>,
              <<VALUE_ACE_OR_THREE, SUIT_HEART>>,   <<VALUE_FOUR_OR_SIX, SUIT_HEART>>,
              <<VALUE_EIGHT_OR_TEN, SUIT_HEART>>,   <<VALUE_JACK_OR_KING, SUIT_HEART>>,
              <<VALUE_ACE_OR_THREE, SUIT_CLUB>>,    <<VALUE_FOUR_OR_SIX, SUIT_CLUB>>,
              <<VALUE_EIGHT_OR_TEN, SUIT_CLUB>>,    <<VALUE_JACK_OR_KING, SUIT_CLUB>>,
              <<VALUE_ACE_OR_THREE, SUIT_DIAMOND>>, <<VALUE_FOUR_OR_SIX, SUIT_DIAMOND>>,
              <<VALUE_EIGHT_OR_TEN, SUIT_DIAMOND>>, <<VALUE_JACK_OR_KING, SUIT_DIAMOND>> >>)

\* the two values written for a marker: temp_deck_array[index0] and temp_deck_array[index1]
swap_values(marker) ==
    CASE marker = VALUE_ACE_OR_THREE -> <<1, 3>>
      [] marker = VALUE_FOUR_OR_SIX  -> <<4, 6>>
      [] marker = VALUE_EIGHT_OR_TEN -> <<8, 10>>
      [] marker = VALUE_JACK_OR_KING -> <<11, 13>>

\* the indices i at which the first loop of find_best_deck_order finds a slot's marker
swap_indices(temp_deck_array, n_bits_max, slot) ==
    {i \in 0 .. (n_bits_max - 1) :
        /\ temp_deck_array[i] % 256 = swap_slots[slot][1]
        /\ temp_deck_array[i] \div 256 = swap_slots[slot][2]}

\* the sixteen two-element arrays (xa3_spade_array, ...) after that loop: the indices in
\* increasing order, 0 where nothing was stored
swap_arrays(temp_deck_array, n_bits_max) ==
    [slot \in 0 .. 15 |->
        LET found == swap_indices(temp_deck_array, n_bits_max, slot)
        IN  [n \in 0 .. 1 |->
                IF \E i \in found : Cardinality({j \in found : j < i}) = n
                THEN CHOOSE i \in found : Cardinality({j \in found : j < i}) = n
                ELSE 0]]

\* the deck of pass i of the loop over the 65536 variants: bit slot of i chooses which of
\* the two stored indices takes the lower value.  With two distinct indices in every
\* array no cell is written twice.
deck_variant(temp_deck_array, arrays, i) ==
    [p \in 0 .. (DECK_ARRAY_LENGTH - 1) |->
        LET x(slot) == (i \div Pow2(slot)) % 2
            low  == {slot \in 0 .. 15 : arrays[slot][x(slot)] = p}
            high == {slot \in 0 .. 15 : arrays[slot][1 - x(slot)] = p}
            card(slot, n) == swap_slots[slot][2] * 256 + swap_values(swap_slots[slot][1])[n]
        IN  IF high # {} THEN card(CHOOSE slot \in high : TRUE, 2)
            ELSE IF low # {} THEN card(CHOOSE slot \in low : TRUE, 1)
            ELSE temp_deck_array[p]]

\* variant of the comparison that also lets an equal score replace the stored deck
deck_score_is_not_lower(best_score, deck_score) == best_score <= deck_score

\* find_best_deck_order: if (best_score < deck_score)
deck_score_is_higher(best_score, deck_score) == best_score < deck_score

\* memset(&array[0], 0, n_bits_max): n_bits_max bytes, that is n_bits_max / 4 cells of a
\* four-byte int
memset_bytes(array, byte_count) ==
    [j \in 0 .. (DECK_ARRAY_LENGTH - 1) |-> IF j < byte_count \div 4 THEN 0 ELSE array[j]]

-----------------------------------------------------------------------------
(* Specification SpecDeck: umake_decks_main processes one record of the candidate file. *)
(* A step is the conversion and validation of the record, the part of                  *)
(* find_best_deck_order before its loop over the variants, one half of a pass of that   *)
(* loop (writing the cells, then testing and scoring), or the end of the function.      *)
(* The HC line is read and never used by the realizer.                                  *)

\* the number of passes of the loop "for (i = 0; i < 65536; ++i)" that are run
MaxVariant == 24

DeckRecord ==
    [red |-> DeckRed, cd |-> DeckCd, odd |-> DeckOdd, c7k |-> DeckC7k, c8k |-> DeckC8k,
     c4t |-> DeckC4t]

ScoreRecord ==
    [red |-> ScoreRed, cd |-> ScoreCd, odd |-> ScoreOdd, c7k |-> ScoreC7k,
     c8k |-> ScoreC8k, c4t |-> ScoreC4t]

TwoTwosRecord ==
    [red |-> TwoTwosRed, cd |-> TwoTwosCd, odd |-> TwoTwosOdd, c7k |-> TwoTwosC7k,
     c8k |-> TwoTwosC8k, c4t |-> TwoTwosC4t]

NoneSpadeRecord ==
    [red |-> NoneSpadeRed, cd |-> NoneSpadeCd, odd |-> NoneSpadeOdd, c7k |-> NoneSpadeC7k,
     c8k |-> NoneSpadeC8k, c4t |-> NoneSpadeC4t]

NoneHeartRecord ==
    [red |-> NoneHeartRed, cd |-> NoneHeartCd, odd |-> NoneHeartOdd, c7k |-> NoneHeartC7k,
     c8k |-> NoneHeartC8k, c4t |-> NoneHeartC4t]

OddCountRecord ==
    [red |-> OddCountRed, cd |-> OddCountCd, odd |-> OddCountOdd, c7k |-> OddCountC7k,
     c8k |-> OddCountC8k, c4t |-> OddCountC4t]

\* the record DeckRecord with the first digit of its 4T line changed
RepeatRecord == [DeckRecord EXCEPT !.c4t = [DeckC4t EXCEPT ![1] = "0"]]

CandidateRecords ==
    {DeckRecord, ScoreRecord, TwoTwosRecord, NoneSpadeRecord, NoneHeartRecord, OddCountRecord,
     RepeatRecord}

\* memset(&seq_info, 0, sizeof(seq_info)); seq_info.n_bits_max = N_BITS_MAX
seq_info_zero ==
    [red_seq |-> {}, cd_seq |-> {}, odd_seq |-> {}, c7k_seq |-> {}, c8k_seq |-> {},
     c4t_seq |-> {}, n_bits_max |-> N_BITS_MAX]

\* memset(&deck_info, 0, sizeof(deck_info)); deck_info.deck_length = seq_info.n_bits_max
deck_info_zero ==
    [deck_array |-> [j \in 0 .. (DECK_ARRAY_LENGTH - 1) |-> 0],
     temp_deck_array |-> [j \in 0 .. (DECK_ARRAY_LENGTH - 1) |-> 0],
     deck_length |-> seq_info_zero.n_bits_max, deck_score |-> 0, sequence_count |-> 0,
     sequence_type_bits |-> 0, find_all_sequences_flag |-> FALSE]

\* the initialised locals of find_best_deck_order
local_zero ==
    [arrays |-> [slot \in 0 .. 15 |-> [n \in 0 .. 1 |-> 0]], i |-> 0, deck_score |-> 0,
     best_score |-> TINY_DECK_SCORE, sequence_type_bits |-> 0,
     best_sequence_type_bits |-> 0, maximum_sequence_count |-> 0,
     first_sequence_found |-> TRUE]

\* the program_args of umake_decks as its main sets them before the options are read;
\* of the options that change what is printed, --eight is given or not, and --input and
\* --cut are not given
umake_args_default ==
    [sequence_group_skip_count |-> 0, display_8_sequences_min_flag |-> FALSE,
     display_input_sequences_flag |-> FALSE]

\* a _tprintf call: its format, and the value of its %d argument (0 if it has none)
tprintf(format, argument) == [format |-> format, argument |-> argument]

InitDeck ==
    /\ prog = "deck"
    /\ d_pc = "record"
    /\ d_record \in CandidateRecords
    /\ seq_info = seq_info_zero
    /\ deck_info \in {[deck_info_zero EXCEPT !.find_all_sequences_flag = f] : f \in BOOLEAN}
    /\ d_local = local_zero
    /\ d_seen = << >>
    /\ d_group_count = 0
    /\ u_out = << >>
    /\ o_args \in {[umake_args_default EXCEPT !.display_8_sequences_min_flag = f] :
                      f \in BOOLEAN}
    /\ IdleExcept("deck")

\* umake_decks_main at the blank line that ends a record: the lines are converted and the
\* six sequences tested; exit(-1) on an invalid one
DeckReadRecord ==
    /\ prog = "deck"
    /\ d_pc = "record"
    /\ seq_info' = [seq_info EXCEPT !.red_seq = bit_get_integer_seq(d_record.red),
                                    !.cd_seq  = bit_get_integer_seq(d_record.cd),
                                    !.odd_seq = bit_get_integer_seq(d_record.odd),
                                    !.c7k_seq = bit_get_integer_seq(d_record.c7k),
                                    !.c8k_seq = bit_get_integer_seq(d_record.c8k),
                                    !.c4t_seq = bit_get_integer_seq(d_record.c4t)]
    /\ d_pc' = IF \/ ~bit_has_unique_subsequences(seq_info'.red_seq)
                  \/ ~bit_has_unique_subsequences(seq_info'.cd_seq)
                  \/ ~bit_has_unique_subsequences(seq_info'.odd_seq)
                  \/ ~bit_has_unique_subsequences(seq_info'.c7k_seq)
                  \/ ~bit_has_unique_subsequences(seq_info'.c8k_seq)
                  \/ ~bit_has_unique_subsequences(seq_info'.c4t_seq)
               THEN "exit"
               ELSE "find"
    /\ u_out' = IF d_pc' = "exit"
                THEN Append(u_out, tprintf("invalid sequence encountered\n", 0))
                ELSE u_out
    /\ d_group_count' = d_group_count + 1
    /\ UNCHANGED <<deck_frame, d_record, deck_info, d_local, d_seen>>

\* find_best_deck_order up to its loop over the variants: the two memsets, the deck
\* possibilities, the test for an illegal code, the loop that stores the indices of the
\* markers and the test of the sixteen counts.  A third index of one marker is stored
\* past the end of a two-element array: the behaviour is undefined from there on.
DeckSetup ==
    /\ prog = "deck"
    /\ d_pc = "find"
    /\ LET deck_array == memset_bytes(deck_info.deck_array, seq_info.n_bits_max)
           temp_deck_array ==
               get_deck_possibilities(
                   memset_bytes(deck_info.temp_deck_array, seq_info.n_bits_max), seq_info)
           di == [deck_info EXCEPT !.deck_array = deck_array,
                                   !.temp_deck_array = temp_deck_array]
           count(slot) ==
               Cardinality(swap_indices(temp_deck_array, seq_info.n_bits_max, slot))
           returned == [di EXCEPT !.deck_score = local_zero.best_score,
                                  !.sequence_type_bits = local_zero.best_sequence_type_bits]
       IN  IF deck_is_value_in_array(0, temp_deck_array, seq_info.n_bits_max)
           THEN /\ deck_info' = returned
                /\ d_local' = local_zero
                /\ d_pc' = "done"
                /\ u_out' = Append(u_out, tprintf("illegal code encountered\n", 0))
           ELSE IF \E slot \in 0 .. 15 : count(slot) > 2
           THEN /\ deck_info' = di
                /\ d_local' = local_zero
                /\ d_pc' = "undefined"
                /\ UNCHANGED u_out
           ELSE IF \E slot \in 0 .. 15 : count(slot) # 2
           THEN /\ deck_info' = returned
                /\ d_local' = [local_zero EXCEPT
                                  !.arrays = swap_arrays(temp_deck_array, seq_info.n_bits_max)]
                /\ d_pc' = "done"
                /\ UNCHANGED u_out
           ELSE /\ deck_info' = di
                /\ d_local' = [local_zero EXCEPT
                                  !.arrays = swap_arrays(temp_deck_array, seq_info.n_bits_max)]
                /\ d_pc' = "variants"
                /\ UNCHANGED u_out
    /\ UNCHANGED <<deck_frame, d_record, seq_info, d_seen, d_group_count>>

\* the first part of a pass of the loop over the variants: the 32 cells are written
DeckVariant ==
    /\ prog = "deck"
    /\ d_pc = "variants"
    /\ d_local.i < MaxVariant
    /\ deck_info' = [deck_info EXCEPT !.temp_deck_array =
                        deck_variant(deck_info.temp_deck_array, d_local.arrays, d_local.i)]
    /\ d_pc' = "test"
    /\ UNCHANGED <<deck_frame, u_out, d_record, seq_info, d_local, d_seen, d_group_count>>

\* deck_get_dup_count_score on a deck with a cell whose card_value is 0: the ASSERT is
\* compiled out, and last_value_position_array[card_value - 1] is the element before the
\* array
reads_before_array(di) ==
    \E i \in 0 .. (di.deck_length - 1) : di.temp_deck_array[i] % 16 = 0

\* the rest of the pass: the deck is tested and scored, and stored if it is the best.
\* The behaviour is undefined from a call of get_deck_score on that reads before the
\* array of deck_get_dup_count_score.
DeckTest ==
    /\ prog = "deck"
    /\ d_pc = "test"
    /\ \E tested \in {test_deck_for_special_sequences(deck_info)} :
       \E deck_score \in
              {get_deck_score([deck_info EXCEPT !.sequence_count = tested.sequence_count])} :
       LET di1 == [deck_info EXCEPT !.sequence_count = tested.sequence_count]
           sequence_type_bits == tested.sequence_type_bits
           l0 == [d_local EXCEPT !.i = @ + 1, !.sequence_type_bits = sequence_type_bits]
           l1 == [l0 EXCEPT !.maximum_sequence_count = di1.sequence_count,
                            !.first_sequence_found = FALSE,
                            !.best_score = IF d_local.first_sequence_found
                                           THEN TINY_DECK_SCORE ELSE @,
                            !.deck_score = deck_score]
           copied(length) ==
               [j \in 0 .. (DECK_ARRAY_LENGTH - 1) |->
                   IF j < length THEN deck_info.temp_deck_array[j]
                   ELSE deck_info.deck_array[j]]
       IN  IF /\ reads_before_array(deck_info)
              /\ IF sequence_type_bits # 0
                 THEN di1.sequence_count >= d_local.maximum_sequence_count
                 ELSE di1.deck_array[0] = 0
           THEN /\ d_local' = l0
                /\ deck_info' = di1
                /\ d_pc' = "undefined"
                /\ UNCHANGED d_seen
           ELSE
           /\ IF sequence_type_bits # 0
              THEN IF di1.sequence_count >= d_local.maximum_sequence_count
                   THEN IF deck_score_is_higher(l1.best_score, deck_score)
                        THEN /\ d_local' = [l1 EXCEPT
                                               !.best_score = deck_score,
                                               !.best_sequence_type_bits = sequence_type_bits]
                             /\ deck_info' = [di1 EXCEPT !.deck_array = copied(di1.deck_length)]
                        ELSE /\ d_local' = l1
                             /\ deck_info' = di1
                   ELSE /\ d_local' = l0
                        /\ deck_info' = di1
              ELSE IF di1.deck_array[0] = 0
                   THEN /\ d_local' = [l0 EXCEPT !.best_score = deck_score]
                        /\ deck_info' = [di1 EXCEPT !.deck_array = copied(seq_info.n_bits_max)]
                   ELSE /\ d_local' = l0
                        /\ deck_info' = di1
           /\ d_seen' = Append(d_seen, [deck |-> deck_info.temp_deck_array,
                                        sequence_type_bits |-> sequence_type_bits,
                                        spread |-> deck_get_dup_count_score(deck_info),
                                        score |-> deck_score])
           /\ d_pc' = "variants"
    /\ UNCHANGED <<deck_frame, u_out, d_record, seq_info, d_group_count>>

\* the end of find_best_deck_order: "Pass back the results to the caller."
DeckFinish ==
    /\ prog = "deck"
    /\ d_pc = "variants"
    /\ d_local.i >= MaxVariant
    /\ deck_info' = [deck_info EXCEPT !.deck_score = d_local.best_score,
                                      !.sequence_type_bits = d_local.best_sequence_type_bits]
    /\ d_pc' = "done"
    /\ UNCHANGED <<deck_frame, u_out, d_record, seq_info, d_local, d_seen, d_group_count>>

\* umake_decks_main after find_best_deck_order has returned: the result is printed
\* unless --eight was given and major_sequence_count is below 8; then the seven line
\* arrays are cleared and the line loop goes on.  seq_display_sequence_matches and
\* deck_display_stack stand for the text they print, with the sequence_type_bits and
\* the top_card_index they are called with.
DeckDisplay ==
    /\ prog = "deck"
    /\ d_pc = "done"
    /\ LET major_sequence_count == deck_info.deck_score \div Pow2(16)
           top_card_index == 0
       IN  u_out' = IF ~o_args.display_8_sequences_min_flag \/ major_sequence_count >= 8
                    THEN u_out \o
                         << tprintf("Major sequence count = %d\n", major_sequence_count),
                            tprintf("Deck spread score = %d\n\n",
                                    65535 - (deck_info.deck_score % 65536)),
                            tprintf("seq_display_sequence_matches",
                                    deck_info.sequence_type_bits),
                            tprintf("deck_display_stack", top_card_index) >>
                    ELSE u_out
    /\ d_pc' = "next"
    /\ UNCHANGED <<deck_frame, d_record, seq_info, deck_info, d_local, d_seen, d_group_count>>

NextDeck ==
    DeckReadRecord \/ DeckSetup \/ DeckVariant \/ DeckTest \/ DeckFinish \/ DeckDisplay

SpecDeck == InitDeck /\ [][NextDeck]_vars

\* each of the 52 cards (suit 0..3, value 1..13) lies at exactly one of the first 52 indices
IsStandardDeck(deck) ==
    /\ \A suit \in 0 .. 3 : \A value \in 1 .. 13 :
           Cardinality({p \in 0 .. 51 : deck[p] = suit * 256 + value}) = 1
    /\ \A p \in 0 .. 51 : deck[p] \div 256 \in 0 .. 3 /\ deck[p] % 256 \in 1 .. 13

\* C4: for every record that find_best_deck_order does not reject before its loop over
\* the variants, and for every variant index, the deck built for that index contains
\* each (suit, value) pair with suit in 0..3 and value in 1..13 exactly once.
C4_EveryVariantIsStandardDeck ==
    (prog = "deck") => \A e \in 1 .. Len(d_seen) : IsStandardDeck(d_seen[e].deck)

\* the number of set bits of a non-negative int
PopCount(bits) == Cardinality(IntBits(bits))

\* the index of the first variant built whose score no other variant exceeds
FirstBest(seen) ==
    CHOOSE e \in 1 .. Len(seen) :
        /\ \A f \in 1 .. Len(seen) : seen[f].score <= seen[e].score
        /\ \A f \in 1 .. (e - 1) : seen[f].score < seen[e].score

\* C8: when find_best_deck_order has run its loop over the variants of an accepted
\* record to the end, the stored deck_score is the maximum of the scores of the variants,
\* and the stored deck and sequence_type_bits are those of the lowest-numbered variant
\* with that score.
C8_BestVariantIsStored ==
    (prog = "deck" /\ d_pc = "done" /\ Len(d_seen) > 0) =>
        LET best == d_seen[FirstBest(d_seen)]
        IN  /\ deck_info.deck_score = best.score
            /\ \A p \in 0 .. 51 : deck_info.deck_array[p] = best.deck[p]
            /\ deck_info.sequence_type_bits = best.sequence_type_bits

\* the loop has ended; the best score was reached by two variants, the first of them
\* not variant 0, and some variant has a lower score
C8_Witness ==
    /\ prog = "deck"
    /\ d_pc = "done"
    /\ Len(d_seen) > 0
    /\ FirstBest(d_seen) > 1
    /\ \E f \in (FirstBest(d_seen) + 1) .. Len(d_seen) :
           d_seen[f].score = d_seen[FirstBest(d_seen)].score
    /\ \E f \in 1 .. Len(d_seen) : d_seen[f].score < deck_info.deck_score

\* C9: the score of every variant is (popcount(sequence_type_bits) << 16) | spread with
\* 0 <= spread <= 65535; of two variants the one with more bits set has the strictly
\* higher score, and of two with equal bits the one with the lower penalty
\* (65535 - spread) has the strictly higher score.
C9_ScorePacksCountAboveSpread ==
    (prog = "deck") =>
        /\ \A e \in 1 .. Len(d_seen) :
               /\ d_seen[e].spread \in 0 .. 65535
               /\ d_seen[e].score = PopCount(d_seen[e].sequence_type_bits) * 65536
                                    + d_seen[e].spread
        /\ \A e, f \in 1 .. Len(d_seen) :
               /\ PopCount(d_seen[e].sequence_type_bits) > PopCount(d_seen[f].sequence_type_bits)
                      => d_seen[e].score > d_seen[f].score
               /\ (/\ d_seen[e].sequence_type_bits = d_seen[f].sequence_type_bits
                   /\ 65535 - d_seen[e].spread < 65535 - d_seen[f].spread)
                      => d_seen[e].score > d_seen[f].score

\* a variant with more bits set and a lower spread than another, and two variants with
\* equal bits and different spreads
C9_Witness ==
    /\ prog = "deck"
    /\ \E e, f \in 1 .. Len(d_seen) :
           /\ PopCount(d_seen[e].sequence_type_bits) > PopCount(d_seen[f].sequence_type_bits)
           /\ d_seen[e].spread < d_seen[f].spread
    /\ \E e, f \in 1 .. Len(d_seen) :
           /\ d_seen[e].sequence_type_bits = d_seen[f].sequence_type_bits
           /\ d_seen[e].spread # d_seen[f].spread

-----------------------------------------------------------------------------
(* Specification SpecDup: deck_get_dup_count_score applied to complete decks, namely *)
(* every cut of the first variant of two records.                                    *)

\* the deck of variant i of a record, as find_best_deck_order builds it
realized_deck(record, i) ==
    LET si == [seq_info_zero EXCEPT !.red_seq = bit_get_integer_seq(record.red),
                                    !.cd_seq  = bit_get_integer_seq(record.cd),
                                    !.odd_seq = bit_get_integer_seq(record.odd),
                                    !.c7k_seq = bit_get_integer_seq(record.c7k),
                                    !.c8k_seq = bit_get_integer_seq(record.c8k),
                                    !.c4t_seq = bit_get_integer_seq(record.c4t)]
        temp_deck_array == get_deck_possibilities(deck_info_zero.temp_deck_array, si)
    IN  deck_variant(temp_deck_array, swap_arrays(temp_deck_array, si.n_bits_max), i)

\* the deck cut so that the card at top_card_index comes first, the order in which
\* deck_display_stack walks the deck
cut_deck(deck, top_card_index) ==
    [i \in 0 .. (DECK_ARRAY_LENGTH - 1) |->
        IF i < deck_info_zero.deck_length
        THEN deck[(i + top_card_index) % deck_info_zero.deck_length]
        ELSE deck[i]]

DupDecks ==
    {cut_deck(deck, top_card_index) :
        deck \in {realized_deck(record, 0) : record \in {DeckRecord, ScoreRecord}},
        top_card_index \in 0 .. (deck_info_zero.deck_length - 1)}

InitDup ==
    /\ prog = "dup"
    /\ dup_deck_info \in {[deck_info_zero EXCEPT !.temp_deck_array = deck] : deck \in DupDecks}
    /\ dup_result = << >>
    /\ IdleExcept("dup")

DupScore ==
    /\ prog = "dup"
    /\ dup_result = << >>
    /\ dup_result' = << deck_get_dup_count_score(dup_deck_info) >>
    /\ UNCHANGED <<dup_frame, dup_deck_info>>

NextDup == DupScore

SpecDup == InitDup /\ [][NextDup]_vars

\* the distance from the card at index p back to the nearest card of the same value,
\* going round from index 0 to index 51
CyclicDistance(deck, p) ==
    CHOOSE d \in 1 .. 52 :
        /\ deck[(p + 52 - d) % 52] % 256 = deck[p] % 256
        /\ \A e \in 1 .. (d - 1) : deck[(p + 52 - e) % 52] % 256 # deck[p] % 256

\* the sum of the table penalties 32, 16, 8, 4, 2, 1 for the distances 1..6, taken once
\* for every card and the nearest preceding card of its value in cyclic order
CyclicPenalty(deck) ==
    LET n(d) == Cardinality({p \in 0 .. 51 : CyclicDistance(deck, p) = d})
    IN  32 * n(1) + 16 * n(2) + 8 * n(3) + 4 * n(4) + 2 * n(5) + n(6)

\* C10: for every complete deck deck_get_dup_count_score returns 65535 minus the sum,
\* over each card and the nearest preceding card of the same value in cyclic order, of
\* the table penalty for their distance, each pair counted once, also across the wrap.
C10_DupScoreIsCyclicTablePenalty ==
    (prog = "dup" /\ dup_result # << >>) =>
        /\ IsStandardDeck(dup_deck_info.temp_deck_array)
        /\ dup_result[1] = 65535 - CyclicPenalty(dup_deck_info.temp_deck_array)

-----------------------------------------------------------------------------
(* Specification SpecCache: the reference-counted file cache (f64_seq.c). A client *)
(* holds MaxHandles handle variables and calls f64_make, f64_next, f64_reset and   *)
(* f64_delete on them in any order. The file system and malloc are the             *)
(* environment: every step of f64_make that can fail does so or not.               *)

MaxHandles == 2

MaxPaths == 2

MaxAllocs == 2

MaxFailedOpens == 1

MaxCalls == 4

MAXIMUM_NUMBER_OF_FILES == 16

\* a uint32_t count is kept as the integer of -2^31 .. 2^31 - 1 that is congruent to it
\* modulo 2^32: 0xFFFFFFFF is -1, and a count equals a small number n exactly when
\* the integer kept is n
uint32_inc(count) == IF count = 2147483647 THEN (-2147483647) - 1 ELSE count + 1

uint32_dec(count) == IF count = (-2147483647) - 1 THEN 2147483647 ELSE count - 1

F64_NULL == 0

HandleVars == 1 .. MaxHandles

Paths == 1 .. MaxPaths

\* the u64 values of the file at a path
CacheFileAt(path) == IF path = 1 THEN << {}, {0} >> ELSE << {path}, {1}, {} >>

\* what a read of freed or never written memory can give
IndeterminateValues == { {}, {0}, {5} }

\* a handle variable that holds NULL
null_handle ==
    [live |-> FALSE, sequence_ptr |-> F64_NULL, count |-> 0, seq_index |-> 0,
     file_name_index |-> 0]

\* the ways a call of f64_make can go: no memory for the handle, the call of _tstat64
\* fails, no memory for the array, _tfopen_s fails, or nothing fails
MakeOutcomes == {"no_handle", "stat_failed", "out_of_memory", "open_failed", "no_failure"}

\* f64_load_file on handle f64 whose slot is chosen: the handle, the cache slots, the
\* heap and the status afterwards
f64_load_file(f64, path, outcome, cache, heap) ==
    LET count   == Len(CacheFileAt(path))
        address == Len(heap) + 1
        block   == [freed |-> FALSE, written |-> outcome = "no_failure",
                    data |-> CacheFileAt(path), slot |-> f64.file_name_index]
    IN  IF outcome = "stat_failed"
        THEN [success |-> FALSE, f64 |-> f64, cache |-> cache, heap |-> heap]
        ELSE IF outcome = "out_of_memory"
        THEN [success |-> FALSE,
              f64 |-> [f64 EXCEPT !.count = count, !.sequence_ptr = F64_NULL],
              cache |-> cache, heap |-> heap]
        ELSE [success |-> outcome = "no_failure",
              f64 |-> [f64 EXCEPT !.count = count, !.sequence_ptr = address],
              cache |-> [cache EXCEPT ![f64.file_name_index] =
                            [sequence_ptr |-> address, count |-> count]],
              heap |-> Append(heap, block)]

\* f64_delete on a handle that is not NULL: the reference counts and the heap
\* afterwards, the address passed to free (F64_NULL when free is not called) and whether
\* the call stayed inside the static arrays and freed no block twice
f64_delete(f64, reference_count, cache, heap) ==
    LET index == f64.file_name_index
    IN  IF index \notin 0 .. (MAXIMUM_NUMBER_OF_FILES - 1)
        THEN [defined |-> FALSE, reference_count |-> reference_count, heap |-> heap,
              freed |-> F64_NULL]
        ELSE LET count == uint32_dec(reference_count[index])
                 address == cache[index].sequence_ptr
                 counts == [reference_count EXCEPT ![index] = count]
             IN  IF count = 0 /\ address # F64_NULL
                 THEN [defined |-> ~heap[address].freed,
                       reference_count |-> counts,
                       heap |-> [heap EXCEPT ![address].freed = TRUE],
                       freed |-> address]
                 ELSE [defined |-> TRUE, reference_count |-> counts, heap |-> heap,
                       freed |-> F64_NULL]

\* the loop of f64_make over the cache slots: the first slot that is empty or holds
\* the path, -1 when there is none
f64_find_slot(names, path) ==
    LET hits == {i \in 0 .. (MAXIMUM_NUMBER_OF_FILES - 1) : names[i] = 0 \/ names[i] = path}
    IN  IF hits = {} THEN -1 ELSE CHOOSE i \in hits : \A j \in hits : i <= j

InitCache ==
    /\ prog = "cache"
    /\ s_reference_count_array = [i \in 0 .. (MAXIMUM_NUMBER_OF_FILES - 1) |-> 0]
    /\ s_path_file_name_array = [i \in 0 .. (MAXIMUM_NUMBER_OF_FILES - 1) |-> 0]
    /\ s_cache_array = [i \in 0 .. (MAXIMUM_NUMBER_OF_FILES - 1) |->
                           [sequence_ptr |-> F64_NULL, count |-> 0]]
    /\ f64_handles = [h \in HandleVars |-> null_handle]
    /\ f64_heap = << >>
    /\ f64_result = << >>
    /\ f64_pc = "run"
    /\ f64_failed_opens = 0
    /\ f64_calls = [h \in HandleVars |-> 0]
    /\ f64_log = [call |-> "none", handle |-> 0]
    /\ IdleExcept("cache")

\* f64_make(&handle h, path)
CacheMake(h, path, outcome) ==
    /\ prog = "cache"
    /\ f64_pc = "run"
    /\ ~f64_handles[h].live
    /\ Len(f64_heap) < MaxAllocs
    /\ (outcome # "no_failure") => f64_failed_opens < MaxFailedOpens
    /\ LET index == f64_find_slot(s_path_file_name_array, path)
           found == index # -1 /\ s_path_file_name_array[index] = path
           f64 == IF found
                  THEN [live |-> TRUE, sequence_ptr |-> s_cache_array[index].sequence_ptr,
                        count |-> s_cache_array[index].count, seq_index |-> 0,
                        file_name_index |-> index]
                  ELSE [live |-> TRUE, sequence_ptr |-> F64_NULL, count |-> 0,
                        seq_index |-> 0, file_name_index |-> index]
           names == IF index # -1 /\ ~found
                    THEN [s_path_file_name_array EXCEPT ![index] = path]
                    ELSE s_path_file_name_array
           first == index # -1 /\ s_reference_count_array[index] = 0
       IN  IF outcome = "no_handle"
           THEN /\ f64_log' = [call |-> "make", handle |-> h, path |-> path,
                               success |-> FALSE, slot |-> -1, found_count |-> 0,
                               load_called |-> FALSE, freed |-> F64_NULL]
                /\ f64_failed_opens' = f64_failed_opens + 1
                /\ UNCHANGED <<s_reference_count_array, s_path_file_name_array,
                               s_cache_array, f64_handles, f64_heap, f64_pc>>
           ELSE \E loaded \in {IF first
                               THEN f64_load_file(f64, path, outcome, s_cache_array, f64_heap)
                               ELSE [success |-> index # -1, f64 |-> f64,
                                     cache |-> s_cache_array, heap |-> f64_heap]} :
                \E deleted \in {f64_delete(loaded.f64, s_reference_count_array,
                                           loaded.cache, loaded.heap)} :
                /\ s_path_file_name_array' = names
                /\ s_cache_array' = loaded.cache
                /\ f64_log' = [call |-> "make", handle |-> h, path |-> path,
                               success |-> loaded.success, slot |-> index,
                               found_count |-> IF index = -1 THEN 0
                                               ELSE s_reference_count_array[index],
                               load_called |-> first,
                               freed |-> IF loaded.success THEN F64_NULL ELSE deleted.freed]
                /\ f64_failed_opens' = f64_failed_opens + IF loaded.success THEN 0 ELSE 1
                /\ IF loaded.success
                   THEN /\ s_reference_count_array' =
                               [s_reference_count_array EXCEPT ![index] = uint32_inc(@)]
                        /\ f64_handles' = [f64_handles EXCEPT ![h] = loaded.f64]
                        /\ f64_heap' = loaded.heap
                        /\ f64_pc' = f64_pc
                   ELSE /\ s_reference_count_array' = deleted.reference_count
                        /\ f64_handles' = f64_handles
                        /\ f64_heap' = deleted.heap
                        /\ f64_pc' = IF deleted.defined THEN f64_pc ELSE "undefined"
    /\ f64_calls' = [f64_calls EXCEPT ![h] = 0]
    /\ f64_result' = << >>
    /\ UNCHANGED cache_frame

\* f64_delete(&handle h)
CacheDelete(h) ==
    /\ prog = "cache"
    /\ f64_pc = "run"
    /\ f64_handles[h].live
    /\ \E deleted \in {f64_delete(f64_handles[h], s_reference_count_array,
                                  s_cache_array, f64_heap)} :
        /\ s_reference_count_array' = deleted.reference_count
        /\ f64_heap' = deleted.heap
        /\ f64_pc' = IF deleted.defined THEN f64_pc ELSE "undefined"
        /\ f64_log' = [call |-> "delete", handle |-> h, freed |-> deleted.freed]
    /\ f64_handles' = [f64_handles EXCEPT ![h] = null_handle]
    /\ f64_calls' = [f64_calls EXCEPT ![h] = 0]
    /\ f64_result' = << >>
    /\ UNCHANGED <<cache_frame, s_path_file_name_array, s_cache_array, f64_failed_opens>>

\* f64_reset(handle h)
CacheReset(h) ==
    /\ prog = "cache"
    /\ f64_pc = "run"
    /\ f64_handles[h].live
    /\ f64_handles' = [f64_handles EXCEPT ![h].seq_index = f64_reset(@)]
    /\ f64_log' = [call |-> "reset", handle |-> h]
    /\ f64_calls' = [f64_calls EXCEPT ![h] = 0]
    /\ f64_result' = << >>
    /\ UNCHANGED <<cache_frame, s_reference_count_array, s_path_file_name_array,
                   s_cache_array, f64_heap, f64_pc, f64_failed_opens>>

\* what the count elements at sequence_ptr of a handle can hold: the values read from
\* the file, or any values when the array was freed or never written
f64_array(f64, heap) ==
    IF \/ f64.sequence_ptr = F64_NULL
       \/ heap[f64.sequence_ptr].freed
       \/ ~heap[f64.sequence_ptr].written
    THEN [1 .. f64.count -> IndeterminateValues]
    ELSE {heap[f64.sequence_ptr].data}

\* f64_next(handle h)
CacheNext(h) ==
    /\ prog = "cache"
    /\ f64_pc = "run"
    /\ f64_handles[h].live
    /\ f64_calls[h] < MaxCalls
    /\ f64_calls' = [f64_calls EXCEPT ![h] = @ + 1]
    /\ LET f64 == f64_handles[h]
       IN  IF f64.sequence_ptr = F64_NULL /\ f64.seq_index < f64.count
           THEN /\ f64_pc' = "undefined"
                /\ f64_log' = [call |-> "next", handle |-> h, freed_read |-> FALSE]
                /\ f64_result' = << >>
                /\ UNCHANGED f64_handles
           ELSE /\ \E array \in f64_array(f64, f64_heap) :
                    \E next \in {f64_next(array, f64.seq_index)} :
                        /\ f64_result' = << next.seq_value >>
                        /\ f64_handles' = [f64_handles EXCEPT ![h].seq_index = next.seq_index]
                /\ f64_log' = [call |-> "next", handle |-> h,
                               freed_read |-> /\ f64.seq_index < f64.count
                                              /\ f64_heap[f64.sequence_ptr].freed]
                /\ f64_pc' = f64_pc
    /\ UNCHANGED <<cache_frame, s_reference_count_array, s_path_file_name_array,
                   s_cache_array, f64_heap, f64_failed_opens>>

NextCache ==
    \/ \E h \in HandleVars, path \in Paths, outcome \in MakeOutcomes :
           CacheMake(h, path, outcome)
    \/ \E h \in HandleVars : CacheDelete(h)
    \/ \E h \in HandleVars : CacheReset(h)
    \/ \E h \in HandleVars : CacheNext(h)

SpecCache == InitCache /\ [][NextCache]_vars

\* the handle variables that hold a live handle on a cache slot
LiveOn(slot) == {h \in HandleVars : f64_handles[h].live /\ f64_handles[h].file_name_index = slot}

\* C11: after any calls of f64_make and f64_delete, failed or not, the reference count of
\* every cache slot is the number of live handles on the slot's path; f64_make loads the
\* file exactly when it finds that count at zero, and a handle made without a load holds
\* the array and the count of the slot, an array that was read from the file.
C11_RefCountIsLiveHandles ==
    (prog = "cache") =>
        /\ \A slot \in 0 .. (MAXIMUM_NUMBER_OF_FILES - 1) :
               s_reference_count_array[slot] = Cardinality(LiveOn(slot))
        /\ (f64_log.call = "make" /\ f64_log.slot # -1) =>
               /\ f64_log.load_called <=> (f64_log.found_count = 0)
               /\ (f64_log.success /\ ~f64_log.load_called) =>
                      LET f64 == f64_handles[f64_log.handle]
                      IN  /\ f64.sequence_ptr = s_cache_array[f64_log.slot].sequence_ptr
                          /\ f64.count = s_cache_array[f64_log.slot].count
                          /\ f64.sequence_ptr # F64_NULL
                          /\ ~f64_heap[f64.sequence_ptr].freed
                          /\ f64_heap[f64.sequence_ptr].written

\* C12: an array is freed exactly when no live handle holds it any more: no live handle
\* holds a freed array, no f64_next reads one, every array that no live handle holds has
\* been freed, and no array is freed twice.
C12_ArrayFreedWithLastHandle ==
    (prog = "cache") =>
        /\ f64_pc # "undefined"
        /\ \A h \in HandleVars :
               (f64_handles[h].live /\ f64_handles[h].sequence_ptr # F64_NULL) =>
                   ~f64_heap[f64_handles[h].sequence_ptr].freed
        /\ (f64_log.call = "next") => ~f64_log.freed_read
        /\ \A address \in 1 .. Len(f64_heap) :
               f64_heap[address].freed <=>
                   ~\E h \in HandleVars : /\ f64_handles[h].live
                                          /\ f64_handles[h].sequence_ptr = address

\* the values that f64_next can return on handle f64 when its cursor is at position
\* seq_index; no value when the read has no defined outcome
ValuesAt(f64, seq_index) ==
    IF f64.sequence_ptr = F64_NULL /\ seq_index < f64.count
    THEN {}
    ELSE {f64_next(array, seq_index).seq_value : array \in f64_array(f64, f64_heap)}

\* C13: a call of f64_next or f64_reset on one handle changes nothing of that handle but
\* its cursor, leaves every other handle and every array as it was, and two live handles
\* on the same path return the same value when read at the same cursor position.
C13_NextAndResetTouchOneCursor ==
    [][ (prog = "cache" /\ f64_log'.call \in {"next", "reset"}) =>
           /\ \A g \in HandleVars \ {f64_log'.handle} : f64_handles'[g] = f64_handles[g]
           /\ f64_handles'[f64_log'.handle] =
                  [f64_handles[f64_log'.handle] EXCEPT
                       !.seq_index = f64_handles'[f64_log'.handle].seq_index]
           /\ f64_heap' = f64_heap
           /\ \A g1, g2 \in HandleVars :
                  (/\ g1 # g2
                   /\ f64_handles[g1].live
                   /\ f64_handles[g2].live
                   /\ f64_handles[g1].file_name_index = f64_handles[g2].file_name_index) =>
                      \A seq_index \in 0 .. MaxCalls :
                          /\ Cardinality(ValuesAt(f64_handles[g1], seq_index)) = 1
                          /\ ValuesAt(f64_handles[g1], seq_index) =
                             ValuesAt(f64_handles[g2], seq_index) ]_vars

\* a handle whose array is allocated, was read from the file and has count values
OverArray(f64) ==
    /\ f64.live
    /\ f64.sequence_ptr # F64_NULL
    /\ ~f64_heap[f64.sequence_ptr].freed
    /\ f64_heap[f64.sequence_ptr].written
    /\ f64.count = Len(f64_heap[f64.sequence_ptr].data)

\* C14: for a handle over an array of count values, the j-th f64_next after f64_make or
\* f64_reset returns element j - 1 of the array when j <= count and 0 when j > count,
\* so after the end of the cache every call returns 0 until f64_reset; the cursor never
\* exceeds count.
C14_NextWalksArrayThenZero ==
    (prog = "cache") =>
        /\ \A h \in HandleVars : f64_handles[h].live =>
               f64_handles[h].seq_index <= f64_handles[h].count
        /\ (f64_log.call = "next" /\ OverArray(f64_handles[f64_log.handle])) =>
               LET f64 == f64_handles[f64_log.handle]
                   j == f64_calls[f64_log.handle]
               IN  /\ j <= f64.count =>
                          f64_result = << f64_heap[f64.sequence_ptr].data[j] >>
                   /\ j > f64.count => f64_result = << {} >>
                   /\ f64.seq_index = IF j <= f64.count THEN j ELSE f64.count

\* a handle over the array of path 1, whose first element is 0, has returned 0 at the end
\* of the cache twice
C14_Witness ==
    /\ prog = "cache"
    /\ f64_log.call = "next"
    /\ OverArray(f64_handles[f64_log.handle])
    /\ s_path_file_name_array[f64_handles[f64_log.handle].file_name_index] = 1
    /\ f64_calls[f64_log.handle] = f64_handles[f64_log.handle].count + 2
    /\ f64_result = << {} >>

-----------------------------------------------------------------------------
(* Specification SpecCreate: dbn_file_creator_main writes the values of a primitive *)
(* generator to a cache file, and afterwards a cache handle is opened on the file   *)
(* and read with f64_next. A step of the writer is one pass of the search loop      *)
(* inside dbn_next; the pass that ends the call also writes the value returned.     *)

MaxExtraReads == 2

\* variant of fwrite that stores the most significant byte first
fwrite_uint64_reversed(value) ==
    [i \in 1 .. 8 |-> {b - 8 * (8 - i) : b \in {c \in value : c \div 8 = 8 - i}}]

\* the sizeof(uint64_t) bytes of a value in the order they lie in memory on the machines
\* the program is built for (least significant byte first); a byte is the set of its bits
fwrite_uint64(value) ==
    [i \in 1 .. 8 |-> {b - 8 * (i - 1) : b \in {c \in value : c \div 8 = i - 1}}]

\* the value that fread puts together from sizeof(uint64_t) bytes
fread_uint64(bytes) ==
    UNION {{b + 8 * (i - 1) : b \in bytes[i]} : i \in 1 .. 8}

\* f64_load_file: count = st_size / sizeof(uint64_t) values, read one after the other
f64_load_words(file) ==
    [i \in 1 .. (Len(file) \div 8) |-> fread_uint64(SubSeq(file, 8 * i - 7, 8 * i))]

InitCreate ==
    /\ prog = "create"
    /\ \E n \in SmallNBits, k \in 0 .. MaxNBits, strict \in {0, 1} :
           /\ k <= n
           /\ dbn = dbn_make(n, k, strict)
    /\ dbn_pc = "idle"
    /\ dbn_result = << >>
    /\ dbn_out = << >>
    /\ dbn_resets = 0
    /\ c_pc = "write"
    /\ c_file = << >>
    /\ c_array = << >>
    /\ c_index = 0
    /\ c_read = << >>
    /\ IdleExcept("create")

\* one pass of the loop of dbn_next called from the while loop of dbn_file_creator_main;
\* when the pass returns a value, fwrite stores it and the while loop tests it
CreatePass ==
    /\ prog = "create"
    /\ c_pc = "write"
    /\ Len(dbn.bit_obj_stack) > 0
    /\ \E r \in {dbn_next_pass(dbn)} :
           /\ dbn' = [dbn EXCEPT !.bit_obj_stack = r.bit_obj_stack]
           /\ IF r.returned
              THEN /\ dbn_out' = IF r.result_sequence = {} THEN dbn_out
                                 ELSE Append(dbn_out, r.result_sequence)
                   /\ c_file' = c_file \o fwrite_uint64(r.result_sequence)
                   /\ c_pc' = IF r.result_sequence # {} THEN "write" ELSE "close"
              ELSE UNCHANGED <<dbn_out, c_file, c_pc>>
    /\ UNCHANGED <<create_frame, dbn_pc, dbn_result, dbn_resets, c_array, c_index, c_read>>

\* dbn_next finds its stack empty and returns 0; fwrite stores the 0 and the loop ends
CreateExhausted ==
    /\ prog = "create"
    /\ c_pc = "write"
    /\ Len(dbn.bit_obj_stack) = 0
    /\ c_file' = c_file \o fwrite_uint64({})
    /\ c_pc' = "close"
    /\ UNCHANGED <<create_frame, dbn_vars, c_array, c_index, c_read>>

\* fclose and dbn_delete; the file is complete
CreateClose ==
    /\ prog = "create"
    /\ c_pc = "close"
    /\ c_pc' = "closed"
    /\ UNCHANGED <<create_frame, dbn_vars, c_file, c_array, c_index, c_read>>

\* f64_make on the file: the first handle on its path loads it
CreateOpen ==
    /\ prog = "create"
    /\ c_pc = "closed"
    /\ c_array' = f64_load_words(c_file)
    /\ c_index' = 0
    /\ c_pc' = "read"
    /\ UNCHANGED <<create_frame, dbn_vars, c_file, c_read>>

\* f64_next on the handle
CreateRead ==
    /\ prog = "create"
    /\ c_pc = "read"
    /\ Len(c_read) < Len(c_array) + MaxExtraReads
    /\ \E next \in {f64_next(c_array, c_index)} :
           /\ c_read' = Append(c_read, next.seq_value)
           /\ c_index' = next.seq_index
    /\ UNCHANGED <<create_frame, dbn_vars, c_pc, c_file, c_array>>

NextCreate == CreatePass \/ CreateExhausted \/ CreateClose \/ CreateOpen \/ CreateRead

SpecCreate == InitCreate /\ [][NextCreate]_vars

\* the u64 values of a byte stream read as little-endian words
LittleEndianWords(file) ==
    [i \in 1 .. (Len(file) \div 8) |->
        {b \in 0 .. 63 : (b % 8) \in file[8 * (i - 1) + (b \div 8) + 1]}]

\* C15: the file that dbn_file_creator_main has written is, as a little-endian stream of
\* u64 values, the non-zero values returned by dbn_next in the order of generation
\* followed by exactly one 0, and the successive f64_next calls of a cache handle opened
\* on the file return these values in this order and 0 from then on.
C15_FileIsGeneratedValuesThenZero ==
    (prog = "create" /\ c_pc \in {"closed", "read"}) =>
        /\ Len(c_file) % 8 = 0
        /\ LittleEndianWords(c_file) = dbn_out \o << {} >>
        /\ \A p \in 1 .. Len(dbn_out) : dbn_out[p] # {}
        /\ \A j \in 1 .. Len(c_read) :
               c_read[j] = IF j <= Len(dbn_out) THEN dbn_out[j] ELSE {}

\* a file of at least two generated values has been read to its end and beyond
C15_Witness ==
    /\ prog = "create"
    /\ c_pc = "read"
    /\ Len(dbn_out) >= 2
    /\ Len(c_read) = Len(dbn_out) + 1 + MaxExtraReads

-----------------------------------------------------------------------------
(* Specification SpecPipe: the text that ultimate_search prints, started with the  *)
(* --c8k and --c4t options, is kept in a file and the file is given to umake_decks. *)
(* A step of the writer is one of the print statements of the search (the header   *)
(* of _tmain, a "Found" line, the lines of one tuple); a step of the reader is one  *)
(* pass of the line loop of umake_decks_main. A line is a tuple of characters.      *)

\* the number of tuples the search prints before the file is read
MaxTuples == 2

\* the number of "Found" lines the search prints before the file is read
MaxFoundLines == 2

\* the largest sequence_group_skip_count given to the realizer
MaxSkip == 2

\* the characters for which ISALPHA or ISDIGIT holds
AlphaOrDigit ==
    {"0", "1", "2", "3", "4", "5", "6", "7", "8", "9", "A", "B", "C", "D", "E", "F",
     "G", "H", "I", "J", "K", "L", "M", "N", "O", "P", "Q", "R", "S", "T", "U", "V",
     "W", "X", "Y", "Z", "a", "b", "c", "d", "e", "f", "g", "h", "i", "j", "k", "l",
     "m", "n", "o", "p", "q", "r", "s", "t", "u", "v", "w", "x", "y", "z"}

\* argv of ultimate_search: the program name as typed, with or without a drive letter
SearchArgvs ==
    { << <<"u", "s">>, <<"-", "e">>, <<"-", "t">> >>,
      << <<"C", ":", "u", "s">>, <<"-", "e">>, <<"-", "t">> >> }

\* _tmain: "for (i = 0; i < argc; ++i) _tprintf("%s ", argv[i]); _tprintf("\n\n");"
RECURSIVE tmain_arguments(_)
tmain_arguments(argv) ==
    IF argv = << >> THEN << >> ELSE Head(argv) \o << " " >> \o tmain_arguments(Tail(argv))

tmain_header(argv) == << tmain_arguments(argv) \o << "\n" >>, << "\n" >> >>

\* void display_sequence(text_ptr, sequence, length): the line "%s sequence:  %s\n" whose
\* i-th digit (from 0) is bit length - 1 - i of the sequence
display_sequence(text_ptr, sequence, length) ==
    << text_ptr \o <<" ", "s", "e", "q", "u", "e", "n", "c", "e", ":", " ", " ">>
                \o [i \in 1 .. length |-> IF (length - i) \in sequence THEN "1" ELSE "0"]
                \o << "\n" >> >>

\* the print statements of ultimate_search_main for a tuple that passed every filter
display_tuple(ss) ==
    display_sequence(<<" ", "7", "K">>, ss.c7k_sequence, N_BITS_MAX)
        \o display_sequence(<<" ", "8", "K">>, ss.c8k_sequence, N_BITS_MAX)
        \o display_sequence(<<" ", "4", "T">>, ss.c4t_sequence, N_BITS_MAX)
        \o display_sequence(<<"O", "D", "D">>, ss.odd_sequence, N_BITS_MAX)
        \o display_sequence(<<"R", "E", "D">>, ss.red_sequence, N_BITS_MAX)
        \o display_sequence(<<" ", "C", "D">>, ss.cd_sequence, N_BITS_MAX)
        \o display_sequence(<<" ", "H", "C">>, ss.hc_sequence, N_BITS_MAX)
        \o << << "\n" >> >>

\* tuples as the search prints them: six sequences that pass the validator, and the
\* hc sequence made of the club and heart bits of red and cd
tuple_of(record) ==
    LET red == bit_get_integer_seq(record.red)
        cd  == bit_get_integer_seq(record.cd)
    IN  [c7k_sequence |-> bit_get_integer_seq(record.c7k),
         c8k_sequence |-> bit_get_integer_seq(record.c8k),
         c4t_sequence |-> bit_get_integer_seq(record.c4t),
         odd_sequence |-> bit_get_integer_seq(record.odd),
         red_sequence |-> red,
         cd_sequence  |-> cd,
         hc_sequence  |-> ((cd \ red) \cup (red \ cd)) \cap sequence_mask]

SearchTuples == {tuple_of(DeckRecord), tuple_of(ScoreRecord)}

\* the seven TCHAR arrays of umake_decks_main with red_sequence_array[0] = '\0', ...
arrays_cleared ==
    [red |-> << >>, cd |-> << >>, hc |-> << >>, odd |-> << >>, c7k |-> << >>,
     c8k |-> << >>, c4t |-> << >>]

\* the arrays are locals without an initialiser: what they hold before the first
\* _tcscpy is indeterminate. Three of the contents a build can give them: empty strings,
\* strings that are no sequence, the strings of a valid record left on the stack.
IndeterminateArrays ==
    { arrays_cleared,
      [n \in DOMAIN arrays_cleared |-> << "1" >>],
      [red |-> RepeatRecord.red, cd |-> RepeatRecord.cd, hc |-> RepeatRecord.cd,
       odd |-> RepeatRecord.odd, c7k |-> RepeatRecord.c7k, c8k |-> RepeatRecord.c8k,
       c4t |-> RepeatRecord.c4t] }

\* the buffer after "temp_ptr = _tcschr(seq_array, '\n'); *temp_ptr = '\0'"
strip_newline(line) ==
    LET stops == {p \in 1 .. Len(line) : line[p] = "\n"}
    IN  IF stops = {} THEN line
        ELSE SubSeq(line, 1, (CHOOSE p \in stops : \A q \in stops : p <= q) - 1)

\* _tcsstr(text, pattern): the position of the first occurrence, 0 for NULL
tcsstr(text, pattern) ==
    LET hits == {p \in 1 .. (Len(text) - Len(pattern) + 1) :
                    SubSeq(text, p, p + Len(pattern) - 1) = pattern}
    IN  IF hits = {} THEN 0 ELSE CHOOSE p \in hits : \A q \in hits : p <= q

\* the position of the first character from position p on that is not in the set
\* (Len(text) + 1 stands for the terminating '\0')
first_not_in(text, p, set) ==
    CHOOSE q \in p .. (Len(text) + 1) :
        /\ q = Len(text) + 1 \/ text[q] \notin set
        /\ \A r \in p .. (q - 1) : text[r] \in set

\* the name and the sequence text that umake_decks_main takes from a line with a colon
split_line(text) ==
    LET name_ptr == first_not_in(text, 1, {" "})
        temp_ptr == first_not_in(text, name_ptr, AlphaOrDigit)
        seq_ptr  == first_not_in(text, tcsstr(text, << ":" >>) + 1, {" "})
    IN  [name |-> SubSeq(text, name_ptr, temp_ptr - 1),
         sequence |-> SubSeq(text, seq_ptr, Len(text))]

\* the array that the _tcscmp chain selects for a name, "" for "Unknown sequence type"
array_of_name(name) ==
    IF name = <<"R", "E", "D">> THEN "red"
    ELSE IF name = <<"C", "D">> THEN "cd"
    ELSE IF name = <<"H", "C">> THEN "hc"
    ELSE IF name = <<"O", "D", "D">> THEN "odd"
    ELSE IF name = <<"7", "K">> THEN "c7k"
    ELSE IF name = <<"8", "K">> THEN "c8k"
    ELSE IF name = <<"4", "T">> THEN "c4t"
    ELSE ""

\* the conversion of the seven arrays at a line without a colon
convert_arrays(arrays) ==
    [red_seq |-> bit_get_integer_seq(arrays.red), cd_seq |-> bit_get_integer_seq(arrays.cd),
     hc_seq  |-> bit_get_integer_seq(arrays.hc), odd_seq |-> bit_get_integer_seq(arrays.odd),
     c7k_seq |-> bit_get_integer_seq(arrays.c7k), c8k_seq |-> bit_get_integer_seq(arrays.c8k),
     c4t_seq |-> bit_get_integer_seq(arrays.c4t)]

\* "Verify that all the sequences are valid."
all_sequences_valid(si) ==
    /\ bit_has_unique_subsequences(si.red_seq)
    /\ bit_has_unique_subsequences(si.cd_seq)
    /\ bit_has_unique_subsequences(si.odd_seq)
    /\ bit_has_unique_subsequences(si.c7k_seq)
    /\ bit_has_unique_subsequences(si.c8k_seq)
    /\ bit_has_unique_subsequences(si.c4t_seq)

InitPipe ==
    /\ prog = "pipe"
    /\ p_pc = "header"
    /\ p_stream = << >>
    /\ p_found = 0
    /\ p_emitted = << >>
    /\ p_line = 0
    /\ p_arrays = << >>
    /\ p_count = << >>
    /\ p_realized = << >>
    /\ u_out = << >>
    /\ IdleExcept("pipe")

\* _tmain of ultimate_search prints its arguments before it calls ultimate_search_main
PipeHeader ==
    /\ prog = "pipe"
    /\ p_pc = "header"
    /\ \E argv \in SearchArgvs : p_stream' = tmain_header(argv)
    /\ p_pc' = "write"
    /\ UNCHANGED <<pipe_frame, u_out, p_found, p_emitted, p_line, p_arrays, p_count, p_realized>>

\* the cd loop: _tprintf("Found suit sequences.\n")
PipeFoundSuit ==
    /\ prog = "pipe"
    /\ p_pc = "write"
    /\ Len(SelectSeq(p_stream, LAMBDA l : tcsstr(l, <<"F", "o", "u", "n", "d">>) # 0)) < MaxFoundLines
    /\ p_stream' = Append(p_stream, <<"F", "o", "u", "n", "d", " ", "s", "u", "i", "t", " ", "s", "e", "q", "u", "e", "n", "c", "e", "s", ".", "\n">>)
    /\ p_found' = 1
    /\ UNCHANGED <<pipe_frame, u_out, p_pc, p_emitted, p_line, p_arrays, p_count, p_realized>>

\* the odd loop: _tprintf("Found odd sequence candidate.\n")
PipeFoundOdd ==
    /\ prog = "pipe"
    /\ p_pc = "write"
    /\ p_found >= 1
    /\ Len(SelectSeq(p_stream, LAMBDA l : tcsstr(l, <<"F", "o", "u", "n", "d">>) # 0)) < MaxFoundLines
    /\ p_stream' = Append(p_stream, <<"F", "o", "u", "n", "d", " ", "o", "d", "d", " ", "s", "e", "q", "u", "e", "n", "c", "e", " ", "c", "a", "n", "d", "i", "d", "a", "t", "e", ".", "\n">>)
    /\ p_found' = 2
    /\ UNCHANGED <<pipe_frame, u_out, p_pc, p_emitted, p_line, p_arrays, p_count, p_realized>>

\* the 7k loop: a tuple that passed the filters and both solvers is printed, followed by
\* an empty line
PipeEmit ==
    /\ prog = "pipe"
    /\ p_pc = "write"
    /\ p_found = 2
    /\ Len(p_emitted) < MaxTuples
    /\ \E ss \in SearchTuples :
           /\ p_stream' = p_stream \o display_tuple(ss)
           /\ p_emitted' = Append(p_emitted, [line |-> Len(p_stream'), tuple |-> ss])
    /\ UNCHANGED <<pipe_frame, u_out, p_pc, p_found, p_line, p_arrays, p_count, p_realized>>

\* umake_decks_main up to its line loop, on the file as it stands
PipeOpen ==
    /\ prog = "pipe"
    /\ p_pc = "write"
    /\ p_pc' = "read"
    /\ p_arrays' \in IndeterminateArrays
    /\ \E skip \in 0 .. MaxSkip :
           p_count' = [sequence_group_count |-> 0, sequence_group_skip_count |-> skip]
    /\ UNCHANGED <<pipe_frame, u_out, p_stream, p_found, p_emitted, p_line, p_realized>>

\* one pass of the line loop of umake_decks_main.  u_out receives the two diagnostics
\* of the loop; the call of find_best_deck_order is recorded in p_realized, and what
\* is printed for its result is the subject of SpecDeck.
PipeLine ==
    /\ prog = "pipe"
    /\ p_pc = "read"
    /\ p_line < Len(p_stream)
    /\ p_line' = p_line + 1
    /\ LET seq_array == strip_newline(p_stream[p_line + 1])
           parts     == split_line(seq_array)
           count     == p_count.sequence_group_count + 1
           si        == convert_arrays(p_arrays)
       IN  IF tcsstr(seq_array, <<"F", "o", "u", "n", "d">>) # 0
           THEN UNCHANGED <<p_pc, p_arrays, p_count, p_realized, u_out>>
           ELSE IF tcsstr(seq_array, << ":" >>) # 0
           THEN /\ p_arrays' = IF array_of_name(parts.name) = "" THEN p_arrays
                               ELSE [p_arrays EXCEPT ![array_of_name(parts.name)] =
                                                          parts.sequence]
                /\ u_out' = IF array_of_name(parts.name) = ""
                            THEN Append(u_out,
                                        tprintf("malformed file. Unknown sequence type\n", 0))
                            ELSE u_out
                /\ UNCHANGED <<p_pc, p_count, p_realized>>
           ELSE /\ p_count' = [p_count EXCEPT !.sequence_group_count = count]
                /\ IF count <= p_count.sequence_group_skip_count
                   THEN /\ p_arrays' = arrays_cleared
                        /\ UNCHANGED <<p_pc, p_realized, u_out>>
                   ELSE IF ~all_sequences_valid(si)
                   THEN /\ p_pc' = "exit"
                        /\ u_out' = Append(u_out, tprintf("invalid sequence encountered\n", 0))
                        /\ UNCHANGED <<p_arrays, p_realized>>
                   ELSE /\ p_realized' = Append(p_realized,
                                                [line |-> p_line', seq_info |-> si])
                        /\ p_arrays' = arrays_cleared
                        /\ UNCHANGED <<p_pc, u_out>>
    /\ UNCHANGED <<pipe_frame, p_stream, p_found, p_emitted>>

\* _fgetts returns NULL: the file is closed and umake_decks_main returns
PipeEof ==
    /\ prog = "pipe"
    /\ p_pc = "read"
    /\ p_line = Len(p_stream)
    /\ p_pc' = "done"
    /\ UNCHANGED <<pipe_frame, u_out, p_stream, p_found, p_emitted, p_line, p_arrays, p_count,
                   p_realized>>

NextPipe ==
    PipeHeader \/ PipeFoundSuit \/ PipeFoundOdd \/ PipeEmit \/ PipeOpen \/ PipeLine \/ PipeEof

SpecPipe == InitPipe /\ [][NextPipe]_vars

\* the values of a printed tuple as the fields of seq_info_t
as_seq_info(ss) ==
    [red_seq |-> ss.red_sequence, cd_seq |-> ss.cd_sequence, hc_seq |-> ss.hc_sequence,
     odd_seq |-> ss.odd_sequence, c7k_seq |-> ss.c7k_sequence, c8k_seq |-> ss.c8k_sequence,
     c4t_seq |-> ss.c4t_sequence]

\* C16: once the realizer (started with skip count 0) has left its line loop, it has
\* called find_best_deck_order once for each tuple the search printed, at the empty
\* line that ends the tuple and with the printed values, and at no other line.
C16_OneRealizationPerPrintedTuple ==
    (/\ prog = "pipe"
     /\ p_pc \in {"done", "exit"}
     /\ p_count.sequence_group_skip_count = 0)
        => p_realized = [e \in 1 .. Len(p_emitted) |->
                            [line |-> p_emitted[e].line,
                             seq_info |-> as_seq_info(p_emitted[e].tuple)]]

-----------------------------------------------------------------------------
(* Specification SpecC8k: search_for_c8k_sequence called by ultimate_search_main   *)
(* (option --c8k, with or without --sep) on a bundle that passed the filters of the *)
(* search. A step is the loop that separates the bits by suit, or one pass of the   *)
(* innermost of the four nested loops.                                             *)

\* the rotations of the bundle that are tried are 0 .. MaxRotation - 1
MaxRotation == 52

\* seq ^ other
Xor64(seq, other) == (seq \ other) \cup (other \ seq)

\* the sequence moved up by r positions around the N_BITS_MAX positions
Rotated(seq, r) == {(i + r) % N_BITS_MAX : i \in seq}

\* c7k_c8k_diff_valid, the loop "Now check 1 bit at a time": the difference is shifted
\* down until bit 0 is set; the bit is cleared, and close tells whether another bit is
\* set among the five above it
RECURSIVE diff_find_bit(_, _)
diff_find_bit(c7k_c8k_diff, i) ==
    IF i >= N_BITS_MAX
    THEN [c7k_c8k_diff |-> c7k_c8k_diff, i |-> i, close |-> FALSE]
    ELSE IF 0 \in c7k_c8k_diff
    THEN [c7k_c8k_diff |-> Shr(c7k_c8k_diff \ {0}, 1), i |-> i + 1,
          close |-> AndMask(c7k_c8k_diff \ {0}, SUBSEQUENCE_MASK) # 0]
    ELSE diff_find_bit(Shr(c7k_c8k_diff, 1), i + 1)

\* c7k_c8k_diff_valid, the loop "Find the next bit": six positions at a time while the
\* group holds no bit
RECURSIVE diff_find_group(_, _)
diff_find_group(c7k_c8k_diff, i) ==
    IF i >= N_BITS_MAX
    THEN [c7k_c8k_diff |-> c7k_c8k_diff, i |-> i, close |-> FALSE]
    ELSE IF AndMask(c7k_c8k_diff, SUBSEQUENCE_MASK) # 0
    THEN diff_find_bit(c7k_c8k_diff, i)
    ELSE diff_find_group(Shr(c7k_c8k_diff, 6), i + 6)

\* c7k_c8k_diff_valid, the test after the loop: the first position against the last
diff_first_to_last(first_set_bit_position, last_set_bit_position) ==
    ~((N_BITS_MAX + first_set_bit_position) - last_set_bit_position < 6)

\* c7k_c8k_diff_valid, the loop "while (found_bit_count < 4)"; the loop is left as soon
\* as i has reached n_bits_max, before the position found in that pass is looked at
RECURSIVE diff_valid_loop(_, _, _, _, _)
diff_valid_loop(c7k_c8k_diff, i, found_bit_count, first_set_bit_position, last_set_bit_position) ==
    IF found_bit_count >= 4
    THEN diff_first_to_last(first_set_bit_position, last_set_bit_position)
    ELSE LET f == diff_find_group(c7k_c8k_diff, i)
             set_bit_position == f.i - 1
         IN  IF f.close THEN FALSE
             ELSE IF f.i >= N_BITS_MAX
             THEN diff_first_to_last(first_set_bit_position, last_set_bit_position)
             ELSE IF set_bit_position - last_set_bit_position < 6 THEN FALSE
             ELSE diff_valid_loop(f.c7k_c8k_diff, f.i, found_bit_count + 1,
                                  IF first_set_bit_position = -1 THEN set_bit_position
                                  ELSE first_set_bit_position,
                                  set_bit_position)

\* int c7k_c8k_diff_valid(ultimate_struct_t * seq_set_ptr)
c7k_c8k_diff_valid(ss) ==
    diff_valid_loop(Xor64(ss.c7k_sequence, ss.c8k_sequence), 0, 0, -1, -1000)

\* search_for_c8k_sequence, "Separate all sequence bits by suit value": the positions
\* where the 7K and the odd sequence are both set, by suit and in rising order
separate_bits(ss) ==
    LET both == ss.c7k_sequence \cap ss.odd_sequence \cap sequence_mask
        rising(set) ==
            [n \in 1 .. Cardinality(set) |->
                CHOOSE p \in set : Cardinality({q \in set : q < p}) = n - 1]
    IN  [spade   |-> rising(both \ (ss.red_sequence \cup ss.cd_sequence)),
         heart   |-> rising((both \cap ss.red_sequence) \ ss.cd_sequence),
         club    |-> rising((both \cap ss.cd_sequence) \ ss.red_sequence),
         diamond |-> rising(both \cap ss.red_sequence \cap ss.cd_sequence)]

\* the loop variables after the pass with the values index: d runs fastest, then c, h, s
next_index(index, arrays) ==
    IF index.d + 1 < Len(arrays.diamond) THEN [index EXCEPT !.d = @ + 1]
    ELSE IF index.c + 1 < Len(arrays.club) THEN [index EXCEPT !.c = @ + 1, !.d = 0]
    ELSE IF index.h + 1 < Len(arrays.heart) THEN [index EXCEPT !.h = @ + 1, !.c = 0, !.d = 0]
    ELSE [s |-> index.s + 1, h |-> 0, c |-> 0, d |-> 0]

\* a bundle that passes every filter of the search and has an 8K sequence: its red line
SolverRed ==
    << "1", "1", "1", "0", "0", "0", "0", "1", "1", "0", "0", "0", "1",
       "0", "0", "0", "1", "1", "1", "1", "0", "0", "1", "0", "0", "1",
       "1", "1", "0", "1", "1", "0", "0", "1", "1", "0", "1", "1", "1",
       "1", "1", "0", "1", "0", "1", "0", "0", "0", "0", "0", "1", "0" >>

\* its cd line
SolverCd ==
    << "1", "0", "0", "0", "1", "0", "0", "1", "0", "1", "0", "0", "0",
       "0", "0", "0", "1", "0", "1", "1", "1", "1", "0", "0", "1", "1",
       "0", "1", "0", "0", "1", "1", "1", "0", "0", "0", "1", "1", "1",
       "1", "1", "1", "0", "1", "0", "1", "1", "0", "1", "1", "0", "0" >>

\* its odd line
SolverOdd ==
    << "1", "0", "0", "0", "0", "1", "1", "1", "1", "1", "1", "0", "1",
       "1", "1", "0", "0", "0", "1", "0", "0", "1", "0", "1", "1", "1",
       "1", "0", "0", "1", "0", "0", "0", "1", "1", "0", "1", "0", "1",
       "0", "1", "1", "0", "0", "1", "1", "1", "0", "1", "0", "0", "1" >>

\* its 7K line
SolverC7k ==
    << "1", "0", "1", "0", "0", "0", "1", "1", "1", "0", "0", "0", "0",
       "0", "1", "1", "0", "1", "0", "1", "1", "1", "0", "1", "1", "0",
       "0", "0", "1", "0", "1", "1", "0", "1", "1", "1", "1", "1", "1",
       "0", "0", "1", "0", "0", "1", "0", "1", "0", "0", "1", "1", "1" >>

\* the bundle and what ultimate_search_main has put into seq_set when it calls the solver
solver_seq_set(r, sevens_apart_flag) ==
    LET ss == [seq_set_zero EXCEPT
                  !.red_sequence = Rotated(bit_get_integer_seq(SolverRed), r),
                  !.cd_sequence  = Rotated(bit_get_integer_seq(SolverCd), r)]
        s3 == [suit_sequences(ss).seq_set EXCEPT
                  !.odd_sequence = Rotated(bit_get_integer_seq(SolverOdd), r),
                  !.c7k_sequence = Rotated(bit_get_integer_seq(SolverC7k), r)]
    IN  [red_sequence |-> s3.red_sequence, cd_sequence |-> s3.cd_sequence,
         hc_sequence |-> s3.hc_sequence, spade_bits |-> s3.spade_bits,
         heart_bits |-> s3.heart_bits, club_bits |-> s3.club_bits,
         diamond_bits |-> s3.diamond_bits, odd_sequence |-> s3.odd_sequence,
         c7k_sequence |-> s3.c7k_sequence, c8k_sequence |-> {}, c7k_c8k_diff |-> {},
         sevens_apart_flag |-> sevens_apart_flag]

\* the filters a bundle has passed when the solver is called
passes_filters(ss) ==
    /\ ~has_long_uniform_subsequence(ss.red_sequence)
    /\ is_valid_suit_seq_overlap(ss.red_sequence, ss.cd_sequence, sequence_mask)
    /\ suit_sequences(ss).found
    /\ is_valid_odd_sequence(ss)
    /\ is_valid_c7k_sequence(ss)
    /\ is_valid_deck_sequence(ss)

InitC8k ==
    /\ prog = "c8k"
    /\ k_pc = "call"
    /\ \E r \in 0 .. (MaxRotation - 1), sevens_apart_flag \in BOOLEAN :
           /\ k_seq_set = solver_seq_set(r, sevens_apart_flag)
           /\ passes_filters(k_seq_set)
    /\ k_bit_arrays = << >>
    /\ k_index = << >>
    /\ k_result = << >>
    /\ IdleExcept("c8k")

\* the loop over the n_bits_max positions that fills the four bit arrays
C8kSeparate ==
    /\ prog \in {"c8k", "solve"}
    /\ k_pc = "call"
    /\ k_bit_arrays' = separate_bits(k_seq_set)
    /\ k_index' = [s |-> 0, h |-> 0, c |-> 0, d |-> 0]
    /\ k_pc' = "loop"
    /\ UNCHANGED <<c8k_frame, k_seq_set, k_result>>

\* one pass of the innermost loop: the four bits are taken from the 7K sequence (each
\* is set in it, so the subtraction clears it) and the result is tested
C8kPass ==
    /\ prog \in {"c8k", "solve"}
    /\ k_pc = "loop"
    /\ k_index.s < Len(k_bit_arrays.spade)
    /\ Len(k_bit_arrays.heart) > 0 /\ Len(k_bit_arrays.club) > 0
    /\ Len(k_bit_arrays.diamond) > 0
    /\ LET temp == k_seq_set.c7k_sequence \ {k_bit_arrays.spade[k_index.s + 1],
                                             k_bit_arrays.heart[k_index.h + 1],
                                             k_bit_arrays.club[k_index.c + 1],
                                             k_bit_arrays.diamond[k_index.d + 1]}
           found == [k_seq_set EXCEPT !.c8k_sequence = temp]
       IN  IF ~bit_has_unique_subsequences(temp)
           THEN /\ k_index' = next_index(k_index, k_bit_arrays)
                /\ UNCHANGED <<k_seq_set, k_pc, k_result>>
           ELSE IF k_seq_set.sevens_apart_flag /\ ~c7k_c8k_diff_valid(found)
           THEN /\ k_seq_set' = found
                /\ k_index' = next_index(k_index, k_bit_arrays)
                /\ UNCHANGED <<k_pc, k_result>>
           ELSE /\ k_seq_set' = [found EXCEPT !.c7k_c8k_diff =
                                                 Xor64(found.c7k_sequence, found.c8k_sequence)]
                /\ k_pc' = "returned"
                /\ k_result' = << TRUE >>
                /\ UNCHANGED k_index
    /\ UNCHANGED <<c8k_frame, k_bit_arrays>>

\* the loops have run through every combination: return FALSE
C8kExhausted ==
    /\ prog \in {"c8k", "solve"}
    /\ k_pc = "loop"
    /\ \/ k_index.s >= Len(k_bit_arrays.spade)
       \/ Len(k_bit_arrays.heart) = 0 \/ Len(k_bit_arrays.club) = 0
       \/ Len(k_bit_arrays.diamond) = 0
    /\ k_pc' = "returned"
    /\ k_result' = << FALSE >>
    /\ UNCHANGED <<c8k_frame, k_seq_set, k_bit_arrays, k_index>>

NextC8k == C8kSeparate \/ C8kPass \/ C8kExhausted

SpecC8k == InitC8k /\ [][NextC8k]_vars

\* the distance of two positions around the N_BITS_MAX positions
AroundDistance(p, q) ==
    LET d == IF p >= q THEN p - q ELSE q - p
    IN  IF d <= N_BITS_MAX - d THEN d ELSE N_BITS_MAX - d

\* the sevens-apart predicate: the positions are pairwise at least 6 apart around the cycle
SevensApart(positions) ==
    \A p, q \in positions : p # q => AroundDistance(p, q) >= 6

\* what C20 says of a returned TRUE except for the sevens-apart option
C8kIsSevenKWithFourCleared(ss) ==
    LET cleared == ss.c7k_sequence \ ss.c8k_sequence
    IN  /\ bit_has_unique_subsequences(ss.c8k_sequence)
        /\ WindowsDistinct(ss.c8k_sequence, N_BITS_MAX, 6)
        /\ ss.c8k_sequence \subseteq ss.c7k_sequence
        /\ Cardinality(cleared) = 4
        /\ \A suit_bits \in {ss.spade_bits, ss.heart_bits, ss.club_bits, ss.diamond_bits} :
               Cardinality(cleared \cap suit_bits) = 1
        /\ cleared \subseteq (ss.odd_sequence \cap ss.c7k_sequence)
        /\ ss.c7k_c8k_diff = Xor64(ss.c7k_sequence, ss.c8k_sequence)

\* C20: whenever search_for_c8k_sequence returns TRUE, c8k_sequence is bracelet-valid and
\* is c7k_sequence with exactly four bits cleared, one in each suit, each where the odd
\* and the 7K sequence are set; c7k_c8k_diff is c7k XOR c8k; and with the sevens-apart
\* option on, the four cleared positions are pairwise at least 6 apart around the cycle.
C20_SolverResult ==
    (prog = "c8k" /\ k_result = << TRUE >>) =>
        /\ C8kIsSevenKWithFourCleared(k_seq_set)
        /\ k_seq_set.sevens_apart_flag =>
               SevensApart(k_seq_set.c7k_sequence \ k_seq_set.c8k_sequence)

-----------------------------------------------------------------------------
(* Specification SpecDiff: c7k_c8k_diff_valid called on a seq_set whose 7K and 8K  *)
(* sequences differ in exactly four of the N_BITS_MAX positions.                   *)

\* the seq_set of a call: the four positions are set in the 7K sequence only
diff_seq_set(a, b, c, d) ==
    [c7k_sequence |-> {a, b, c, d}, c8k_sequence |-> {}]

InitDiff ==
    /\ prog = "diff"
    /\ k_pc = "call"
    /\ \E a \in 0 .. (N_BITS_MAX - 4) : \E b \in (a + 1) .. (N_BITS_MAX - 3) :
           \E c \in (b + 1) .. (N_BITS_MAX - 2) : \E d \in (c + 1) .. (N_BITS_MAX - 1) :
               k_seq_set = diff_seq_set(a, b, c, d)
    /\ k_bit_arrays = << >>
    /\ k_index = << >>
    /\ k_result = << >>
    /\ IdleExcept("diff")

\* the call of c7k_c8k_diff_valid and its return value
DiffValid ==
    /\ prog = "diff"
    /\ k_pc = "call"
    /\ k_result' = << c7k_c8k_diff_valid(k_seq_set) >>
    /\ k_pc' = "returned"
    /\ UNCHANGED <<c8k_frame, k_seq_set, k_bit_arrays, k_index>>

NextDiff == DiffValid

SpecDiff == InitDiff /\ [][NextDiff]_vars

\* C21: for every c7k_c8k_diff with exactly four set bits among the 52 positions,
\* c7k_c8k_diff_valid returns TRUE if and only if every two set bits are at cyclic
\* distance at least 6, the pair across the wrap from position 51 to position 0 included.
C21_DiffValidIffSevensApart ==
    (prog = "diff" /\ k_pc = "returned") =>
        (k_result = << TRUE >>
            <=> SevensApart(Xor64(k_seq_set.c7k_sequence, k_seq_set.c8k_sequence)))

-----------------------------------------------------------------------------
(* The red loop of ultimate_search_main and the option for the suit sequences *)

\* C29: the rejection of HD candidates with a long uniform run is optional: an HD value
\* with an all-zero or all-one cyclic 6-bit window that the red loop reads is skipped only
\* when the pre-filter is selected (option -s, the suit sequence modifier); in a run
\* without it the value is paired with CD candidates like any other HD value.
C29_UniformRedPairedUnlessSelected ==
    [][(/\ prog = "search" /\ s_pc = "red"
        /\ s_index'["red"] = s_index["red"] + 1
        /\ seq_set'.red_sequence # {}
        /\ has_long_uniform_subsequence(seq_set'.red_sequence)
        /\ ~o_args.suit_sequence_modifier_flag)
       => s_pc' = "cd"]_vars

-----------------------------------------------------------------------------
(* Termination of the primitive generator *)

\* the loop of dbn_next runs on, and the client (the loop of dbn_file_creator that
\* writes the cache file) goes on calling dbn_next; nothing is assumed about dbn_reset
DbnFairness == WF_vars(DbnCall) /\ WF_vars(DbnPass) /\ WF_vars(DbnExhausted)

SpecDbnLive == SpecDbn /\ DbnFairness

\* the generator is one whose enumeration is run to its end
SmallGenerator == prog = "dbn" /\ dbn.n_bits_max <= MaxNBits

\* dbn_next has returned 0 and the move stack is empty
ZeroWithEmptyStack ==
    /\ prog = "dbn" /\ dbn_pc = "idle"
    /\ dbn_result = << {} >>
    /\ Len(dbn.bit_obj_stack) = 0

-----------------------------------------------------------------------------
(* Rejected records of the realizer (SpecDeck) *)

\* the 4-bit value code (ODD, 7K, 8K, 4T) of the card at index i of the record
ValueCodeAt(si, i) ==
    LET bit(w) == IF (si.n_bits_max - 1 - i) \in w THEN 1 ELSE 0
    IN  bit(si.odd_seq) * 8 + bit(si.c7k_seq) * 4 + bit(si.c8k_seq) * 2 + bit(si.c4t_seq)

\* some card of the record, of whatever suit, has a value code that the table maps to 0
HasNoneCode(si) ==
    \E i \in 0 .. (si.n_bits_max - 1) : value_lookup_array[ValueCodeAt(si, i)] = 0

\* C24: a record in which the value code of some position, in any suit, maps to 0 is
\* rejected by find_best_deck_order before its loop over the variants: no variant of it
\* is built, tested or scored.
C24_NoneCodeRejectedBeforeVariants ==
    (prog = "deck" /\ d_pc # "record" /\ HasNoneCode(seq_info))
        => (d_pc \notin {"variants", "test", "undefined"} /\ d_seen = << >>)

\* the lines that umake_decks_main prints for the result of find_best_deck_order: the
\* count of predicates, the spread score, the predicate list and the deck
IsResultLine(line) ==
    line.format \in {"Major sequence count = %d\n", "Deck spread score = %d\n\n",
                     "seq_display_sequence_matches", "deck_display_stack"}

\* no value code of the record maps to 0, and one of the sixteen (marker, suit) pairs
\* does not lie at exactly two indices of the partial deck
HasMiscountedMarker(si) ==
    /\ ~HasNoneCode(si)
    /\ \E slot \in 0 .. 15 :
           Cardinality(swap_indices(
               get_deck_possibilities(deck_info_zero.temp_deck_array, si),
               si.n_bits_max, slot)) # 2

\* C25: a record that passed the validation and in which some (marker, suit) pair does
\* not occur exactly twice is skipped: no index is stored outside a position array, no
\* variant is built, and when the line loop goes on a diagnostic has been printed and
\* no count, score, predicate list or deck.
C25_MiscountedRecordSkippedWithDiagnostic ==
    (prog = "deck" /\ d_pc \notin {"record", "exit"} /\ HasMiscountedMarker(seq_info))
        => /\ d_pc \in {"find", "done", "next"}
           /\ d_seen = << >>
           /\ (d_pc = "next") =>
                  /\ \E e \in 1 .. Len(u_out) : ~IsResultLine(u_out[e])
                  /\ \A e \in 1 .. Len(u_out) : ~IsResultLine(u_out[e])

\* the sequence_type_bits of a deck that supports none of the tested value arrays
GuaranteedBits ==
    WordToInt(UNION {IntBits(b) : b \in {SEQ_A6, SEQ_A7, SEQ_4T, SEQ_EV, SEQ_HD, SEQ_CD, SEQ_HC}})

\* C28: when the loop over the variants has ended and no variant supported a predicate
\* beyond the seven that are always set, the stored score and deck are those of the
\* first variant (i = 0).
C28_FirstVariantRetainedWithoutExtraPredicate ==
    (/\ prog = "deck"
     /\ d_pc = "done"
     /\ Len(d_seen) > 0
     /\ \A e \in 1 .. Len(d_seen) : d_seen[e].sequence_type_bits = GuaranteedBits)
        => /\ deck_info.deck_score = d_seen[1].score
           /\ \A p \in 0 .. 51 : deck_info.deck_array[p] = d_seen[1].deck[p]

-----------------------------------------------------------------------------
(* The predicates that test_deck_for_special_sequences sets without a test (SpecDeck) *)

\* the indicator sequence of a set of cards on a deck: the card at index i gives bit
\* 51 - i, as the first digit of a sequence line gives the highest bit
Indicator(deck, holds(_)) == {51 - i : i \in {j \in 0 .. 51 : holds(deck[j])}}

\* suits are 0 spade, 1 club, 2 heart, 3 diamond; values are 1 (ace) to 13 (king)
IndicatorHD(deck)  == Indicator(deck, LAMBDA card : card \div 256 \in {2, 3})
IndicatorCD(deck)  == Indicator(deck, LAMBDA card : card \div 256 \in {1, 3})
IndicatorHC(deck)  == Indicator(deck, LAMBDA card : card \div 256 \in {1, 2})
IndicatorODD(deck) == Indicator(deck, LAMBDA card : (card % 256) % 2 = 1)
IndicatorEV(deck)  == Indicator(deck, LAMBDA card : (card % 256) % 2 = 0)
IndicatorA6(deck)  == Indicator(deck, LAMBDA card : (card % 256) \in 1 .. 6)
IndicatorA7(deck)  == Indicator(deck, LAMBDA card : (card % 256) \in 1 .. 7)

\* C27: on every deck that find_best_deck_order builds from a record it accepts, the
\* indicator sequences of HD, CD, HC, ODD, A6, A7 and EV are all bracelet-valid.
C27_GuaranteedPredicatesSupported ==
    (prog = "deck") =>
        \A e \in 1 .. Len(d_seen) :
            /\ bit_has_unique_subsequences(IndicatorHD(d_seen[e].deck))
            /\ bit_has_unique_subsequences(IndicatorCD(d_seen[e].deck))
            /\ bit_has_unique_subsequences(IndicatorODD(d_seen[e].deck))
            /\ bit_has_unique_subsequences(IndicatorEV(d_seen[e].deck))
            /\ bit_has_unique_subsequences(IndicatorA6(d_seen[e].deck))
            /\ bit_has_unique_subsequences(IndicatorA7(d_seen[e].deck))
            /\ bit_has_unique_subsequences(IndicatorHC(d_seen[e].deck))

-----------------------------------------------------------------------------
(* Specification SpecFile: umake_decks is given a candidate file that holds two      *)
(* records, one of them possibly with a line too many, a line too few or a character *)
(* that is no binary digit.  A step is the start of umake_decks_main or one pass of   *)
(* its line loop, as in SpecPipe.                                                    *)

\* the eight lines of a record in the layout of ultimate_search: 7K, 8K, 4T, ODD, RED, CD,
\* HC and the empty line
record_lines(record) == display_tuple(tuple_of(record))

\* a sequence line whose label is none of the seven
UnknownLine ==
    <<" ", "9", "2", " ", "s", "e", "q", "u", "e", "n", "c", "e", ":", " ", " ",
      "0", "1", "1", "0", "\n">>

\* the lines with line n left out
without_line(lines, n) == SubSeq(lines, 1, n - 1) \o SubSeq(lines, n + 1, Len(lines))

\* the lines with one more line before line n
with_line(lines, n, line) ==
    SubSeq(lines, 1, n - 1) \o << line >> \o SubSeq(lines, n, Len(lines))

\* the lines with the first digit "0" of line n replaced by the character c
with_character(lines, n, c) ==
    LET zeros == {q \in 16 .. Len(lines[n]) : lines[n][q] = "0"}
        first == CHOOSE q \in zeros : \A r \in zeros : q <= r
    IN  [lines EXCEPT ![n] = [@ EXCEPT ![first] = c]]

\* files of two records: both complete; an unknown label in the first or in the second;
\* no RED line in the first or in the second; no HC line; a "2" in the ODD line
CandidateFiles ==
    { record_lines(DeckRecord) \o record_lines(ScoreRecord),
      with_line(record_lines(DeckRecord), 4, UnknownLine) \o record_lines(ScoreRecord),
      record_lines(ScoreRecord) \o with_line(record_lines(DeckRecord), 4, UnknownLine),
      without_line(record_lines(DeckRecord), 5) \o record_lines(ScoreRecord),
      record_lines(ScoreRecord) \o without_line(record_lines(DeckRecord), 5),
      record_lines(ScoreRecord) \o without_line(record_lines(DeckRecord), 7),
      record_lines(ScoreRecord) \o with_character(record_lines(DeckRecord), 4, "2") }

InitFile ==
    /\ prog = "pipe"
    /\ p_pc = "write"
    /\ p_stream \in CandidateFiles
    /\ p_found = 0
    /\ p_emitted = << >>
    /\ p_line = 0
    /\ p_arrays = << >>
    /\ p_count = << >>
    /\ p_realized = << >>
    /\ u_out = << >>
    /\ IdleExcept("pipe")

NextFile == PipeOpen \/ PipeLine \/ PipeEof

SpecFile == InitFile /\ [][NextFile]_vars

\* the lines of a file that end a record: no colon and no "Found" in them
RecordEnds(stream) ==
    {n \in 1 .. Len(stream) :
        /\ tcsstr(strip_newline(stream[n]), << ":" >>) = 0
        /\ tcsstr(strip_newline(stream[n]), <<"F", "o", "u", "n", "d">>) = 0}

\* the sequence lines of the record that ends at a line
RecordLines(stream, end) ==
    {n \in 1 .. (end - 1) :
        /\ \A m \in RecordEnds(stream) : ~(n < m /\ m < end)
        /\ n \notin RecordEnds(stream)
        /\ tcsstr(strip_newline(stream[n]), <<"F", "o", "u", "n", "d">>) = 0}

\* the record has a line with an unknown label, lacks one of the seven axes, or has a
\* character other than "0" and "1" in a sequence
IsMalformedRecord(stream, end) ==
    LET parts(n) == split_line(strip_newline(stream[n]))
    IN  \/ \E n \in RecordLines(stream, end) : array_of_name(parts(n).name) = ""
        \/ \E axis \in DOMAIN arrays_cleared :
               \A n \in RecordLines(stream, end) : array_of_name(parts(n).name) # axis
        \/ \E n \in RecordLines(stream, end) :
               \E q \in 1 .. Len(parts(n).sequence) : parts(n).sequence[q] \notin {"0", "1"}

\* the ends of the malformed records among the first upto lines
MalformedEnds(stream, upto) ==
    {end \in RecordEnds(stream) : end <= upto /\ IsMalformedRecord(stream, end)}

\* C26: while umake_decks (started without a skip count) reads a candidate file, it
\* never exits, it does not call find_best_deck_order for a record with an unknown
\* label, a missing axis or a non-binary character, and it has printed at least one
\* diagnostic for each such record read so far.
C26_MalformedRecordSkippedWithDiagnostic ==
    (/\ prog = "pipe"
     /\ p_pc \in {"read", "done", "exit"}
     /\ p_count.sequence_group_skip_count = 0)
        => /\ p_pc # "exit"
           /\ \A end \in MalformedEnds(p_stream, p_line) :
                  \A e \in 1 .. Len(p_realized) : p_realized[e].line # end
           /\ Len(u_out) >= Cardinality(MalformedEnds(p_stream, p_line))

-----------------------------------------------------------------------------
(* The 4T solver search_for_c4t_sequence and the part of the c7k loop body of *)
(* ultimate_search_main that calls the two solvers and prints the bundle      *)
(* (SpecSolve)                                                                *)

\* the sixteen loop variables of search_for_c4t_sequence, from the outermost loop inwards;
\* the n-th bit array, count and loop variable of the model are those of c4t_loops[n]
c4t_loops ==
    << "els", "ehs", "ols", "ohs", "elh", "ehh", "olh", "ohh",
       "elc", "ehc", "olc", "ohc", "eld", "ehd", "old", "ohd" >>

\* suit = (red << 1) | cd of the n-th array: 0 spade, 2 heart, 1 club, 3 diamond
c4t_suit(n) == << 0, 2, 1, 3 >>[((n - 1) \div 4) + 1]

\* the n-th array holds odd cards (ol.., oh..) or even cards (el.., eh..)
c4t_odd(n) == (n - 1) % 4 \in {2, 3}

\* the n-th array holds 7K (high) cards (eh.., oh..) or low cards (el.., ol..)
c4t_high(n) == (n - 1) % 4 \in {1, 3}

\* "Sort all sequence bits by suit value.": the loop over the n_bits_max positions; a
\* position set in c7k_c8k_diff is put into no array
c4t_bit_arrays(ss) ==
    LET member(i, n) ==
            /\ i \notin ss.c7k_c8k_diff
            /\ ((IF i \in ss.red_sequence THEN 2 ELSE 0)
                   + (IF i \in ss.cd_sequence THEN 1 ELSE 0)) = c4t_suit(n)
            /\ (i \in ss.odd_sequence) = c4t_odd(n)
            /\ (i \in ss.c7k_sequence) = c4t_high(n)
        rising(set) ==
            [k \in 1 .. Cardinality(set) |->
                CHOOSE p \in set : Cardinality({q \in set : q < p}) = k - 1]
    IN  [n \in 1 .. 16 |-> rising({i \in 0 .. (N_BITS_MAX - 1) : member(i, n)})]

\* temp -= bit for the bit at position p, in uint64_t arithmetic: a set bit is cleared,
\* a clear bit borrows from the next set bit above it (or wraps around 2^64)
minus_bit(temp, p) ==
    IF p \in temp THEN temp \ {p}
    ELSE LET above == {q \in temp : q > p}
         IN  IF above = {} THEN temp \cup (p .. (WordBits - 1))
             ELSE LET q == CHOOSE x \in above : \A y \in above : x <= y
                  IN  (temp \ {q}) \cup (p .. (q - 1))

\* the statements of the innermost loop body for one suit whose even-low array is the
\* el-th: "Clear 2 odd high bits. Set 2 even low bits. Clear 1 even high bit. Set one
\* odd low bit."; the second bit of a pair is the array entry after the first, cyclically
c4t_suit_step(temp, arrays, index, el) ==
    LET eh == el + 1
        ol == el + 2
        oh == el + 3
        el_bits0 == arrays[el][index[el] + 1]
        el_bits1 == arrays[el][((index[el] + 1) % Len(arrays[el])) + 1]
        eh_bits  == arrays[eh][index[eh] + 1]
        ol_bits  == arrays[ol][index[ol] + 1]
        oh_bits0 == arrays[oh][index[oh] + 1]
        oh_bits1 == arrays[oh][((index[oh] + 1) % Len(arrays[oh])) + 1]
    IN  minus_bit(minus_bit(minus_bit(temp, oh_bits0), oh_bits1) \cup {el_bits0, el_bits1},
                  eh_bits) \cup {ol_bits}

\* temp as the innermost loop body builds it: spades, hearts, clubs, diamonds
c4t_temp(ss, arrays, index) ==
    c4t_suit_step(c4t_suit_step(c4t_suit_step(c4t_suit_step(
        ss.c7k_sequence, arrays, index, 1), arrays, index, 5), arrays, index, 9),
        arrays, index, 13)

\* a loop body that is entered at all: every loop of the nest has a pass
c4t_has_pass(arrays) == \A n \in 1 .. 16 : Len(arrays[n]) > 0

\* the loop variables after a pass of the innermost body: the innermost loop that has a
\* pass left takes it and the loops inside it start again; when none has, els leaves
\* its range
c4t_next_index(index, arrays) ==
    LET open == {n \in 1 .. 16 : index[n] + 1 < Len(arrays[n])}
    IN  IF open = {} THEN [n \in 1 .. 16 |-> IF n = 1 THEN index[1] + 1 ELSE 0]
        ELSE LET m == CHOOSE n \in open : \A k \in open : k <= n
             IN  [n \in 1 .. 16 |-> IF n < m THEN index[n]
                                    ELSE IF n = m THEN index[n] + 1 ELSE 0]

\* a bundle that passes every filter and has an 8K sequence: its red line
EightKBundleRed ==
    << "1", "1", "0", "0", "0", "0", "1", "1", "0", "0", "0", "1", "0",
       "0", "0", "1", "1", "1", "1", "0", "0", "1", "0", "0", "1", "1",
       "1", "0", "1", "1", "0", "0", "1", "1", "0", "1", "1", "1", "1",
       "1", "0", "1", "0", "1", "0", "0", "0", "0", "0", "1", "0", "1" >>

\* its cd line
EightKBundleCd ==
    << "0", "0", "1", "0", "1", "1", "1", "0", "0", "1", "1", "0", "1",
       "1", "1", "1", "0", "1", "1", "0", "0", "0", "1", "0", "1", "0",
       "1", "1", "0", "1", "0", "0", "0", "0", "1", "1", "1", "1", "1",
       "1", "0", "0", "0", "0", "0", "0", "1", "0", "0", "0", "1", "1" >>

\* its odd line
EightKBundleOdd ==
    << "0", "0", "0", "0", "1", "1", "1", "1", "1", "1", "0", "1", "1",
       "1", "0", "0", "0", "1", "0", "0", "1", "0", "1", "1", "1", "1",
       "0", "0", "1", "0", "0", "0", "1", "1", "0", "1", "0", "1", "0",
       "1", "1", "0", "0", "1", "1", "1", "0", "1", "0", "0", "1", "1" >>

\* its 7K line
EightKBundleC7k ==
    << "0", "1", "0", "0", "0", "1", "1", "1", "0", "0", "0", "0", "0",
       "1", "1", "0", "1", "0", "1", "1", "1", "0", "1", "1", "0", "0",
       "0", "1", "0", "1", "1", "0", "1", "1", "1", "1", "1", "1", "0",
       "0", "1", "0", "0", "1", "0", "1", "0", "0", "1", "1", "1", "1" >>

\* a bundle that passes every filter and has no 8K sequence: its red line
PlainBundleRed ==
    << "0", "0", "0", "0", "1", "0", "1", "1", "1", "1", "1", "0", "1",
       "1", "1", "0", "0", "1", "0", "1", "0", "1", "1", "0", "0", "0",
       "1", "1", "0", "1", "0", "0", "1", "1", "1", "1", "0", "0", "0",
       "0", "0", "1", "1", "1", "0", "1", "0", "1", "0", "0", "0", "1" >>

\* its cd line
PlainBundleCd ==
    << "1", "0", "1", "0", "0", "0", "1", "0", "0", "0", "0", "0", "1",
       "1", "1", "0", "1", "1", "1", "1", "1", "0", "0", "1", "1", "0",
       "0", "0", "1", "1", "0", "1", "1", "0", "0", "1", "0", "0", "1",
       "1", "1", "1", "0", "1", "0", "1", "1", "1", "0", "0", "0", "0" >>

\* its odd line
PlainBundleOdd ==
    << "1", "1", "0", "0", "0", "1", "0", "1", "0", "1", "1", "1", "1",
       "1", "1", "0", "0", "0", "0", "0", "0", "1", "1", "1", "1", "0",
       "1", "0", "1", "0", "0", "1", "0", "0", "1", "1", "0", "0", "1",
       "0", "1", "1", "0", "1", "1", "1", "0", "0", "1", "1", "1", "0" >>

\* its 7K line
PlainBundleC7k ==
    << "1", "1", "0", "1", "1", "0", "1", "0", "0", "1", "1", "1", "1",
       "0", "1", "0", "1", "0", "1", "1", "1", "0", "0", "0", "0", "0",
       "1", "1", "1", "0", "1", "1", "1", "1", "1", "0", "0", "1", "1",
       "0", "0", "1", "0", "1", "1", "0", "0", "0", "1", "0", "0", "0" >>

\* a bundle as the four loops of ultimate_search_main hold it
bundle_of(red, cd, odd, c7k) ==
    [red_sequence |-> bit_get_integer_seq(red), cd_sequence |-> bit_get_integer_seq(cd),
     odd_sequence |-> bit_get_integer_seq(odd), c7k_sequence |-> bit_get_integer_seq(c7k)]

\* the bundles that reach the solvers in a run of the search, in loop order
SolverRuns ==
    { << bundle_of(EightKBundleRed, EightKBundleCd, EightKBundleOdd, EightKBundleC7k),
         bundle_of(PlainBundleRed, PlainBundleCd, PlainBundleOdd, PlainBundleC7k) >> }

\* ultimate_struct_t seq_set = { 0LL, ... } with seq_set.sevens_apart_flag taken from
\* program_args
solve_seq_set_start(sevens_apart_flag) ==
    [red_sequence |-> {}, cd_sequence |-> {}, hc_sequence |-> {}, spade_bits |-> {},
     heart_bits |-> {}, club_bits |-> {}, diamond_bits |-> {}, odd_sequence |-> {},
     c7k_sequence |-> {}, c8k_sequence |-> {}, c4t_sequence |-> {}, c7k_c8k_diff |-> {},
     sevens_apart_flag |-> sevens_apart_flag]

\* seq_set when a bundle has passed is_valid_deck_sequence: the loops have assigned the
\* red, cd, odd and c7k sequences and the suit masks; the fields of the solvers are as
\* the bundle before left them
bundle_seq_set(ss, bundle) ==
    LET s2 == [ss EXCEPT !.red_sequence = bundle.red_sequence,
                         !.cd_sequence = bundle.cd_sequence]
    IN  [suit_sequences(s2).seq_set EXCEPT !.odd_sequence = bundle.odd_sequence,
                                          !.c7k_sequence = bundle.c7k_sequence]

\* a bundle is given up without a line of output
continue_never(is_valid_flag) == FALSE

\* "if (!is_valid_flag) { continue; }" after a solver
continue_bundle(is_valid_flag) == ~is_valid_flag

\* the display_sequence calls at the end of the loop body and the empty line
display_bundle(ss, args) ==
    display_sequence(<<" ", "7", "K">>, ss.c7k_sequence, N_BITS_MAX)
        \o (IF args.c8k_sequence_flag
            THEN display_sequence(<<" ", "8", "K">>, ss.c8k_sequence, N_BITS_MAX)
            ELSE << >>)
        \o (IF args.c4t_sequence_flag
            THEN display_sequence(<<" ", "4", "T">>, ss.c4t_sequence, N_BITS_MAX)
            ELSE << >>)
        \o display_sequence(<<"O", "D", "D">>, ss.odd_sequence, N_BITS_MAX)
        \o display_sequence(<<"R", "E", "D">>, ss.red_sequence, N_BITS_MAX)
        \o display_sequence(<<" ", "C", "D">>, ss.cd_sequence, N_BITS_MAX)
        \o display_sequence(<<" ", "H", "C">>, ss.hc_sequence, N_BITS_MAX)
        \o << << "\n" >> >>

InitSolve ==
    /\ prog = "solve"
    /\ o_args \in {[program_args_default EXCEPT !.c8k_sequence_flag = c8k,
                                                !.sevens_apart_flag = apart,
                                                !.c4t_sequence_flag = c4t] :
                      c8k \in BOOLEAN, apart \in BOOLEAN, c4t \in BOOLEAN}
    /\ v_run \in SolverRuns
    /\ \A n \in 1 .. Len(v_run) :
           \E ss \in {bundle_seq_set(solve_seq_set_start(FALSE), v_run[n])} :
               passes_filters(ss)
    /\ k_seq_set = solve_seq_set_start(o_args.sevens_apart_flag)
    /\ v_pc = "bundle"
    /\ v_bundle = 0
    /\ v_out = << >>
    /\ v_arrays = << >>
    /\ v_index = << >>
    /\ v_result = << >>
    /\ k_pc = "idle"
    /\ k_bit_arrays = << >>
    /\ k_index = << >>
    /\ k_result = << >>
    /\ IdleExcept("solve")

\* the c7k loop has a bundle that passed is_valid_deck_sequence
SolveBundle ==
    /\ prog = "solve"
    /\ v_pc = "bundle"
    /\ v_bundle < Len(v_run)
    /\ k_seq_set' = bundle_seq_set(k_seq_set, v_run[v_bundle + 1])
    /\ v_pc' = IF o_args.c8k_sequence_flag THEN "c8k"
               ELSE IF o_args.c4t_sequence_flag THEN "c4t" ELSE "display"
    /\ k_pc' = IF o_args.c8k_sequence_flag THEN "call" ELSE k_pc
    /\ UNCHANGED <<solve_frame, v_run, v_bundle, v_out, v_arrays, v_index, v_result,
                   k_bit_arrays, k_index, k_result>>

\* search_for_c8k_sequence has returned
SolveC8kReturned ==
    /\ prog = "solve"
    /\ v_pc = "c8k"
    /\ k_pc = "returned"
    /\ k_pc' = "idle"
    /\ k_result' = << >>
    /\ IF continue_bundle(k_result[1])
       THEN /\ v_pc' = "bundle"
            /\ v_bundle' = v_bundle + 1
       ELSE /\ v_pc' = IF o_args.c4t_sequence_flag THEN "c4t" ELSE "display"
            /\ UNCHANGED v_bundle
    /\ UNCHANGED <<solve_frame, v_run, v_out, v_arrays, v_index, v_result,
                   k_seq_set, k_bit_arrays, k_index>>

\* search_for_c4t_sequence is called: the loop that fills the sixteen bit arrays
C4tSeparate ==
    /\ prog = "solve"
    /\ v_pc = "c4t"
    /\ v_arrays' = c4t_bit_arrays(k_seq_set)
    /\ v_index' = [n \in 1 .. 16 |-> 0]
    /\ v_result' = << >>
    /\ v_pc' = "c4t_loop"
    /\ UNCHANGED <<solve_frame, c8k_vars, v_run, v_bundle, v_out>>

\* the loop nest: it has ended (return FALSE), or the innermost body runs once and
\* returns TRUE with the sequence stored, or leaves the sequence alone and goes on
C4tPass ==
    /\ prog = "solve"
    /\ v_pc = "c4t_loop"
    /\ IF ~c4t_has_pass(v_arrays) \/ v_index[1] >= Len(v_arrays[1])
       THEN /\ v_result' = << FALSE >>
            /\ v_pc' = "c4t_returned"
            /\ UNCHANGED <<k_seq_set, v_index>>
       ELSE \E temp \in {c4t_temp(k_seq_set, v_arrays, v_index)} :
               IF bit_has_unique_subsequences(temp)
               THEN /\ k_seq_set' = [k_seq_set EXCEPT !.c4t_sequence = temp]
                    /\ v_result' = << TRUE >>
                    /\ v_pc' = "c4t_returned"
                    /\ UNCHANGED v_index
               ELSE /\ v_index' = c4t_next_index(v_index, v_arrays)
                    /\ UNCHANGED <<k_seq_set, v_result, v_pc>>
    /\ UNCHANGED <<solve_frame, v_run, v_bundle, v_out, v_arrays,
                   k_pc, k_bit_arrays, k_index, k_result>>

\* search_for_c4t_sequence has returned
SolveC4tReturned ==
    /\ prog = "solve"
    /\ v_pc = "c4t_returned"
    /\ IF continue_bundle(v_result[1])
       THEN /\ v_pc' = "bundle"
            /\ v_bundle' = v_bundle + 1
       ELSE /\ v_pc' = "display"
            /\ UNCHANGED v_bundle
    /\ UNCHANGED <<solve_frame, c8k_vars, v_run, v_out, v_arrays, v_index, v_result>>

\* the bundle is printed and the c7k loop goes on
SolveDisplay ==
    /\ prog = "solve"
    /\ v_pc = "display"
    /\ v_out' = v_out \o display_bundle(k_seq_set, o_args)
    /\ v_bundle' = v_bundle + 1
    /\ v_pc' = "bundle"
    /\ UNCHANGED <<solve_frame, c8k_vars, v_run, v_arrays, v_index, v_result>>

NextSolve == SolveBundle \/ C8kSeparate \/ C8kPass \/ C8kExhausted \/ SolveC8kReturned \/ C4tSeparate \/ C4tPass \/ SolveC4tReturned \/ SolveDisplay

SpecSolve == InitSolve /\ [][NextSolve]_vars

\* what C22 says of a returned TRUE: the 4T sequence passes the validator, keeps the bits
\* of c7k_c8k_diff set, and in every suit differs from the 7K sequence by two odd-high
\* bits cleared, one even-high bit cleared, two even-low bits set and one odd-low bit set
C4tIsRearrangedSevenK(ss) ==
    LET cleared == ss.c7k_sequence \ ss.c4t_sequence
        raised  == ss.c4t_sequence \ ss.c7k_sequence
    IN  /\ bit_has_unique_subsequences(ss.c4t_sequence)
        /\ WindowsDistinct(ss.c4t_sequence, N_BITS_MAX, 6)
        /\ ss.c7k_c8k_diff \subseteq ss.c4t_sequence
        /\ \A suit_bits \in {ss.spade_bits, ss.heart_bits, ss.club_bits, ss.diamond_bits} :
               /\ Cardinality(cleared \cap suit_bits \cap ss.odd_sequence) = 2
               /\ Cardinality((cleared \cap suit_bits) \ ss.odd_sequence) = 1
               /\ Cardinality((raised \cap suit_bits) \ ss.odd_sequence) = 2
               /\ Cardinality(raised \cap suit_bits \cap ss.odd_sequence) = 1
        /\ Cardinality(ss.c4t_sequence) = Cardinality(ss.c7k_sequence)

\* the pairs of bits of one class that the loops of the solver form
C4tPairsFormed(array) ==
    {{array[i + 1], array[((i + 1) % Len(array)) + 1]} : i \in 0 .. (Len(array) - 1)}

\* all pairs of distinct bits of one class
C4tAllPairs(array) ==
    {pair \in SUBSET {array[i] : i \in 1 .. Len(array)} : Cardinality(pair) = 2}

\* the arrays from which the solver takes two bits: even-low and odd-high of each suit
C4tPairArrays == {1, 4, 5, 8, 9, 12, 13, 16}

C22_TrueReturnAndPinnedPairs ==
    (prog = "solve" /\ v_pc \in {"c4t_loop", "c4t_returned"}) =>
        /\ (v_result = << TRUE >>) => C4tIsRearrangedSevenK(k_seq_set)
        /\ o_args.c8k_sequence_flag =>
               \A n \in C4tPairArrays :
                   C4tPairsFormed(v_arrays[n]) = C4tAllPairs(v_arrays[n])

\* the solver has returned TRUE after a bundle was given up, with and without the bits
\* of the sevens pinned
C22_WitnessPinned ==
    /\ prog = "solve" /\ v_result = << TRUE >> /\ v_pc = "c4t_returned"
    /\ Cardinality(k_seq_set.c7k_c8k_diff) = 4

C22_WitnessUnpinned ==
    /\ prog = "solve" /\ v_result = << TRUE >> /\ v_pc = "c4t_returned"
    /\ k_seq_set.c7k_c8k_diff = {}

\* the number of lines written for one bundle: 7K, 8K and 4T if enabled, ODD, RED, CD,
\* HC and the empty line
BlockLength(args) ==
    6 + (IF args.c8k_sequence_flag THEN 1 ELSE 0) + (IF args.c4t_sequence_flag THEN 1 ELSE 0)

\* the labels of the lines of one block, in order
BlockLabels(args) ==
    << <<" ", "7", "K">> >>
        \o (IF args.c8k_sequence_flag THEN << <<" ", "8", "K">> >> ELSE << >>)
        \o (IF args.c4t_sequence_flag THEN << <<" ", "4", "T">> >> ELSE << >>)
        \o << <<"O", "D", "D">>, <<"R", "E", "D">>, <<" ", "C", "D">>, <<" ", "H", "C">> >>

\* the b-th block of the output
BlockAt(out, args, b) == SubSeq(out, (b - 1) * BlockLength(args) + 1, b * BlockLength(args))

\* the digits of a sequence line, read as the realizer reads them
LineValue(line) == bit_get_integer_seq(SubSeq(line, 16, Len(line)))

\* the value a block gives for a label
BlockValue(block, args, label) ==
    LineValue(block[CHOOSE k \in 1 .. Len(BlockLabels(args)) : BlockLabels(args)[k] = label])

\* a block is well formed: its lines carry the labels in order and end with the empty line
BlockIsWellFormed(block, args) ==
    /\ \A k \in 1 .. Len(BlockLabels(args)) :
           /\ Len(block[k]) = 16 + N_BITS_MAX
           /\ SubSeq(block[k], 1, 3) = BlockLabels(args)[k]
    /\ block[Len(block)] = << "\n" >>

\* the bundle that a block shows
BlockBundle(block, args) ==
    [red_sequence |-> BlockValue(block, args, <<"R", "E", "D">>),
     cd_sequence  |-> BlockValue(block, args, <<" ", "C", "D">>),
     odd_sequence |-> BlockValue(block, args, <<"O", "D", "D">>),
     c7k_sequence |-> BlockValue(block, args, <<" ", "7", "K">>)]

\* the 8K value of a block is one that the 8K solver can give for the bundle of the same
\* block: the 7K value with one bit cleared in each suit where odd and 7K are set, valid
BlockEightKIsOfBundle(block, args) ==
    LET bundle  == BlockBundle(block, args)
        c8k     == BlockValue(block, args, <<" ", "8", "K">>)
        cleared == bundle.c7k_sequence \ c8k
        red     == bundle.red_sequence
        cd      == bundle.cd_sequence
    IN  /\ bit_has_unique_subsequences(c8k)
        /\ c8k \subseteq bundle.c7k_sequence
        /\ cleared \subseteq bundle.odd_sequence
        /\ \A suit_bits \in {sequence_mask \ (red \cup cd), red \ cd, cd \ red, red \cap cd} :
               Cardinality(cleared \cap suit_bits) = 1

\* the 4T value of a block is one that the 4T solver can give for the bundle and the 8K
\* value of the same block
BlockFourTIsOfBundle(block, args) ==
    LET bundle == BlockBundle(block, args)
        c8k    == IF args.c8k_sequence_flag THEN BlockValue(block, args, <<" ", "8", "K">>)
                  ELSE {}
        diff   == IF args.c8k_sequence_flag THEN Xor64(bundle.c7k_sequence, c8k) ELSE {}
        red    == bundle.red_sequence
        cd     == bundle.cd_sequence
    IN  C4tIsRearrangedSevenK(
            [c7k_sequence |-> bundle.c7k_sequence, odd_sequence |-> bundle.odd_sequence,
             c4t_sequence |-> BlockValue(block, args, <<" ", "4", "T">>),
             c7k_c8k_diff |-> diff,
             spade_bits |-> sequence_mask \ (red \cup cd), heart_bits |-> red \ cd,
             club_bits |-> cd \ red, diamond_bits |-> red \cap cd])

\* the place in the run of the bundle that a block shows (0 if it is none of the run)
BlockPlace(block, args, run) ==
    IF \E n \in 1 .. Len(run) : run[n] = BlockBundle(block, args)
    THEN CHOOSE n \in 1 .. Len(run) : run[n] = BlockBundle(block, args)
    ELSE 0

\* C23: with the 8K and/or the 4T solver enabled, the output consists of whole blocks,
\* each block is that of a bundle the loop has reached, in loop order and at most one per
\* bundle, and the 8K and 4T values of a block are values of a successful solver run on
\* the bundle of that same block; so a bundle for which an enabled solver fails has no
\* line in the output, and no value is left over from an earlier bundle.
C23_OnlySolvedBundlesWritten ==
    (prog = "solve") =>
        /\ Len(v_out) % BlockLength(o_args) = 0
        /\ \A b \in 1 .. (Len(v_out) \div BlockLength(o_args)) :
               \E block \in {BlockAt(v_out, o_args, b)} :
                   /\ BlockIsWellFormed(block, o_args)
                   /\ BlockPlace(block, o_args, v_run) \in 1 .. Len(v_run)
                   /\ BlockPlace(block, o_args, v_run) <= v_bundle
                   /\ (b > 1) => BlockPlace(BlockAt(v_out, o_args, b - 1), o_args, v_run)
                                     < BlockPlace(block, o_args, v_run)
                   /\ o_args.c8k_sequence_flag => BlockEightKIsOfBundle(block, o_args)
                   /\ o_args.c4t_sequence_flag => BlockFourTIsOfBundle(block, o_args)

\* with both solvers enabled the loop has finished two bundles and has written one block:
\* the bundle with an 8K and a 4T sequence is written, the one without an 8K sequence is not
C23_Witness ==
    /\ prog = "solve"
    /\ o_args.c8k_sequence_flag /\ o_args.c4t_sequence_flag
    /\ v_bundle = 2
    /\ Len(v_out) = BlockLength(o_args)

-----------------------------------------------------------------------------
(* The generator after its last sequence (SpecDbn) *)

\* C31: when dbn_next finds that there are no more sequences, the generator is reset
\* inside dbn_next: whenever dbn_next has returned 0 the move stack holds the two
\* initial moves again, so that later calls enumerate the sequences from the first one
\* without a call of dbn_reset by the client.
C31_ResetInsideNext ==
    (prog = "dbn" /\ dbn_pc = "idle" /\ dbn_result = << {} >>)
        => dbn.bit_obj_stack = dbn_reset(dbn).bit_obj_stack

-----------------------------------------------------------------------------
(* The move stack of the generator (SpecDbn) *)

\* #define BIT_OBJECT_STACK_SIZE (8192)
BIT_OBJECT_STACK_SIZE == 8192

\* the greatest length of a bit string whose windows of n_sub_sequence_bit_count bits
\* are all different
LongestUniqueLength(d) == Pow2(d.n_sub_sequence_bit_count) + d.n_sub_sequence_bit_count - 1

\* bit_obj_stack_index, the number of moves on the stack
bit_obj_stack_index(d) == Len(d.bit_obj_stack)

\* C32: the move-stack index of a generator stays at most twice n_bits_max plus 2, in
\* particular at most 2 * 52 + 2 for n_bits_max = 52, for every target population and
\* both settings of the strict flag, so every push writes inside the 8192-slot stack.
\* The bound follows from two facts that hold in every state: the move in slot i
\* carries a length of at least i - 1 (slots counted from 0), and no move is longer than
\* the longest string with pairwise different windows.
C32_StackIndexBounded ==
    (prog = "dbn") =>
        /\ \A i \in 1 .. bit_obj_stack_index(dbn) :
               /\ dbn.bit_obj_stack[i].length >= i - 2
               /\ dbn.bit_obj_stack[i].length <= LongestUniqueLength(dbn)
        /\ bit_obj_stack_index(dbn) <= 2 * dbn.n_bits_max + 2
        /\ bit_obj_stack_index(dbn) < BIT_OBJECT_STACK_SIZE

\* a 52-bit generator has pushed the two moves that extend a sequence of 52 bits or more
C32_Witness ==
    /\ prog = "dbn" /\ dbn.n_bits_max = 52
    /\ bit_obj_stack_index(dbn) >= 2
    /\ dbn.bit_obj_stack[bit_obj_stack_index(dbn)].length >= 52
    /\ dbn.bit_obj_stack[bit_obj_stack_index(dbn) - 1].length >= 52

-----------------------------------------------------------------------------
(* Lengths of the moves on the stack (SpecDbn) *)

\* C35: dbn_next pushes the two child moves only of a partial sequence that is shorter
\* than n_bits_max: no move with a length of n_bits_max or more is ever on the stack,
\* for every target population (a sequence of n_bits_max bits with fewer than
\* n_one_bits set bits is dropped, not extended).
C35_NoFullLengthMoveOnStack ==
    (prog = "dbn") =>
        \A i \in 1 .. bit_obj_stack_index(dbn) :
            dbn.bit_obj_stack[i].length < dbn.n_bits_max

-----------------------------------------------------------------------------
(* Specification SpecRot: the validator applied to a sequence and to one of its *)
(* rotations around the 52 positions                                            *)

\* the sequences are those of SpecBit, the rotations are all 52
InitRot ==
    /\ prog = "rot"
    /\ r_seq \in BitInputs
    /\ r_shift \in 0 .. (SEQUENCE_LENGTH - 1)
    /\ r_result = << >>
    /\ IdleExcept("rot")

\* bit_has_unique_subsequences is called with the sequence and with the rotated sequence
RotCheck ==
    /\ prog = "rot"
    /\ r_result = << >>
    /\ r_result' = << bit_has_unique_subsequences(r_seq),
                      bit_has_unique_subsequences(Rotated(r_seq, r_shift)) >>
    /\ UNCHANGED <<rot_frame, r_seq, r_shift>>

NextRot == RotCheck

SpecRot == InitRot /\ [][NextRot]_vars

\* C33: bracelet validity is invariant under cyclic rotation: for every 52-bit sequence
\* s and every r in 0..51, bit_has_unique_subsequences answers the same for s rotated by
\* r positions as for s.
C33_ValidityInvariantUnderRotation ==
    (prog = "rot" /\ r_result # << >>) =>
        /\ r_seq \subseteq 0 .. 51
        /\ Rotated(r_seq, r_shift) \subseteq 0 .. 51
        /\ Cardinality(Rotated(r_seq, r_shift)) = Cardinality(r_seq)
        /\ r_result[2] = r_result[1]

\* a rejected sequence whose repeated windows all lie across the wrap has been rotated,
\* so that the repeated windows of the rotated sequence lie inside the word
C33_Witness ==
    /\ prog = "rot"
    /\ r_shift \in 6 .. 46
    /\ r_result = << FALSE, FALSE >>
    /\ \A i, j \in 0 .. 46 :
           (i # j) => (CyclicWindow(r_seq, i, 52, 6) # CyclicWindow(r_seq, j, 52, 6))

-----------------------------------------------------------------------------
(* Specification SpecTmain: _tmain of ultimate_search reads its command line with *)
(* arg_get_arguments. A step is one pass of the argument loop, the part after the *)
(* loop, or the return.                                                           *)

ARG_ERROR_DUPLICATE_SHORT_OPTIONS == -4

ARG_ERROR_PARAM_WITH_MULTIPLE_SHORT_OPTIONS == -3

ARG_ERROR_INVALID_SWITCH == -2

ARG_ERROR_MISSING_SWITCH_ARGUMENT == -1

ARG_NO_MORE_ARGUMENTS == 0

ARG_OPTIONAL_ARGUMENT == 1

ARG_POSITIONAL_ARGUMENT == 2

ARG_EXIT_PROGRAM == 3

\* _tmain: argument_option_array (the entry that ends the array is left out)
argument_option_array ==
    << [c |-> "r", long_name |-> <<"r", "e", "d">>, requires_param |-> TRUE],
       [c |-> "c", long_name |-> <<"c", "d">>, requires_param |-> TRUE],
       [c |-> "o", long_name |-> <<"o", "d", "d">>, requires_param |-> TRUE],
       [c |-> "k", long_name |-> <<"c", "7", "k">>, requires_param |-> TRUE],
       [c |-> "n", long_name |-> <<"v", "a", "l", "s", "h", "o", "r", "t">>,
        requires_param |-> FALSE],
       [c |-> "s", long_name |-> <<"s", "u", "i", "t", "s", "h", "o", "r", "t">>,
        requires_param |-> FALSE],
       [c |-> "e", long_name |-> <<"c", "8", "k">>, requires_param |-> FALSE],
       [c |-> "p", long_name |-> <<"s", "e", "p">>, requires_param |-> FALSE],
       [c |-> "t", long_name |-> <<"c", "4", "t">>, requires_param |-> FALSE],
       [c |-> "h", long_name |-> <<"h", "e", "l", "p">>, requires_param |-> FALSE] >>

\* the result of a search of the option array: not found leaves the caller's option_int
\* and the parameter type OPTION_NO_PARAMETER as they were
option_found(matches, option_int) ==
    IF matches = {} THEN [status |-> ARG_ERROR_INVALID_SWITCH, option_int |-> option_int,
                          requires_param |-> FALSE]
    ELSE LET first == CHOOSE i \in matches : \A j \in matches : i <= j
         IN  [status |-> ARG_OPTIONAL_ARGUMENT, option_int |-> argument_option_array[first].c,
              requires_param |-> argument_option_array[first].requires_param]

\* static int search_for_short_option_char(...)
search_for_short_option_char(option_char, option_int) ==
    option_found({i \in DOMAIN argument_option_array :
                      argument_option_array[i].c = option_char}, option_int)

\* static int search_for_long_option_string(...)
search_for_long_option_string(argument, option_int) ==
    option_found({i \in DOMAIN argument_option_array :
                      argument_option_array[i].long_name = argument}, option_int)

\* static BOOL has_unique_characters(TCHAR * text_ptr)
has_unique_characters(text) ==
    \A i, j \in DOMAIN text : (i # j) => (text[i] # text[j])

Digits == <<"0", "1", "2", "3", "4", "5", "6", "7", "8", "9">>

\* _istdigit
istdigit(ch) == \E d \in DOMAIN Digits : Digits[d] = ch

\* int arg_get_arguments(argc, argv, argument_option_array_ptr, arg_index_ptr,
\* option_int_ptr): the status, with the index, the option and the static pointer
\* next_short_option_ptr as the call leaves them; argv[k] of the code is argv[k + 1]
arg_get_arguments(argv, arg_index, option_int, next_short) ==
    LET argc == Len(argv)
        result(status, index, option, next) ==
            [status |-> status, arg_index |-> index, option_int |-> option,
             next_short |-> next]
        index == arg_index + 1
        argument == argv[index + 1]
        arg_length == Len(argument)
        with_parameter(found, next) ==
            IF found.status > ARG_NO_MORE_ARGUMENTS /\ found.requires_param
            THEN IF index + 1 >= argc
                 THEN result(ARG_ERROR_MISSING_SWITCH_ARGUMENT, index, found.option_int, next)
                 ELSE result(found.status, index + 1, found.option_int, next)
            ELSE result(found.status, index, found.option_int, next)
    IN
    IF next_short # << >>
    THEN LET found == search_for_short_option_char(Head(next_short), option_int)
         IN  result(IF found.requires_param
                    THEN ARG_ERROR_PARAM_WITH_MULTIPLE_SHORT_OPTIONS ELSE found.status,
                    arg_index, found.option_int, Tail(next_short))
    ELSE IF index >= argc THEN result(ARG_NO_MORE_ARGUMENTS, index, option_int, next_short)
    ELSE IF arg_length = 0 \/ argument[1] # "-"
         THEN result(ARG_POSITIONAL_ARGUMENT, index, option_int, next_short)
    ELSE IF arg_length = 1
         THEN result(ARG_ERROR_MISSING_SWITCH_ARGUMENT, index, option_int, next_short)
    ELSE IF istdigit(argument[2])
         THEN result(ARG_POSITIONAL_ARGUMENT, index, option_int, next_short)
    ELSE IF argument[2] = "."
         THEN result(IF arg_length = 2 THEN ARG_ERROR_MISSING_SWITCH_ARGUMENT
                     ELSE ARG_POSITIONAL_ARGUMENT, index, option_int, next_short)
    ELSE IF argument[2] = "-"
         THEN IF arg_length = 2
              THEN result(ARG_ERROR_MISSING_SWITCH_ARGUMENT, index, option_int, next_short)
              ELSE with_parameter(
                       search_for_long_option_string(SubSeq(argument, 3, arg_length),
                                                     option_int), next_short)
    ELSE LET found == search_for_short_option_char(argument[2], option_int)
             next  == SubSeq(argument, 3, arg_length)
         IN  IF found.status < ARG_NO_MORE_ARGUMENTS
             THEN result(found.status, index, option_int, next_short)
             ELSE IF ~has_unique_characters(Tail(argument))
             THEN result(ARG_ERROR_DUPLICATE_SHORT_OPTIONS, index, found.option_int, next)
             ELSE with_parameter(found, next)

\* the number of decimal digits at the start of a text
RECURSIVE digit_count(_)
digit_count(text) ==
    IF text = << >> \/ ~istdigit(Head(text)) THEN 0 ELSE 1 + digit_count(Tail(text))

\* the value of a text of decimal digits
RECURSIVE digits_value(_, _)
digits_value(text, value) ==
    IF text = << >> THEN value
    ELSE digits_value(Tail(text),
                      10 * value + (CHOOSE d \in DOMAIN Digits : Digits[d] = Head(text)) - 1)

\* _tcstol(text, &stop_ptr, 10): blanks are skipped, then a sign and the digits are read;
\* stop_ptr is what follows the digits, or the whole text if there is no digit
RECURSIVE tcstol(_)
tcstol(text) ==
    LET signed == text # << >> /\ Head(text) \in {"-", "+"}
        body   == IF signed THEN Tail(text) ELSE text
        count  == digit_count(body)
        value  == digits_value(SubSeq(body, 1, count), 0)
    IN  IF text # << >> /\ Head(text) = " "
        THEN LET rest == tcstol(Tail(text))
             IN  IF rest.stop_ptr = Tail(text) THEN [value |-> 0, stop_ptr |-> text] ELSE rest
        ELSE IF count = 0 THEN [value |-> 0, stop_ptr |-> text]
        ELSE [value |-> IF Head(text) = "-" THEN 0 - value ELSE value,
              stop_ptr |-> SubSeq(body, count + 1, Len(body))]

\* _tmain: program_args as it is initialized before the arguments are read
tmain_program_args ==
    [red_start_count |-> 0, cd_start_count |-> 0, odd_start_count |-> 0,
     c7k_start_count |-> 0, value_sequence_modifier_flag |-> FALSE,
     suit_sequence_modifier_flag |-> FALSE, c8k_sequence_flag |-> FALSE,
     sevens_apart_flag |-> FALSE, c4t_sequence_flag |-> FALSE]

\* the field of program_args that a count option sets
count_field(option_int) ==
    CASE option_int = "r" -> "red_start_count"
      [] option_int = "c" -> "cd_start_count"
      [] option_int = "o" -> "odd_start_count"
      [] option_int = "k" -> "c7k_start_count"

\* the field of program_args that a flag option sets
flag_field(option_int) ==
    CASE option_int = "n" -> "value_sequence_modifier_flag"
      [] option_int = "s" -> "suit_sequence_modifier_flag"
      [] option_int = "e" -> "c8k_sequence_flag"
      [] option_int = "p" -> "sevens_apart_flag"
      [] option_int = "t" -> "c4t_sequence_flag"

\* the arguments of a command line are at most MaxArgs of the words of ArgWords
MaxArgs == 3

ArgWords ==
    { <<"-", "r">>, <<"-", "c">>, <<"-", "o">>, <<"-", "k">>, <<"-", "-", "c", "7", "k">>,
      <<"-", "e">>, <<"-", "e", "t">>, <<"-", "h">>,
      <<"5">>, <<"-", "5">>, <<"1", "2", "x">>, <<"a", "b", "c">> }

TmainArgvs ==
    UNION { { << <<"u", "s">> >> \o words : words \in [1 .. n -> ArgWords] } : n \in 0 .. MaxArgs }

\* what ultimate_search_main returns: 0, or -1 after a failure
UltimateSearchMainStatuses == {0, -1}

InitTmain ==
    /\ prog = "tmain"
    /\ t_argv \in TmainArgvs
    /\ t_arg_index = 0
    /\ t_next_short = << >>
    /\ t_option_int = 0
    /\ t_status = 0
    /\ t_program_args = tmain_program_args
    /\ t_given = {}
    /\ t_out = << >>
    /\ t_pc = "parse"
    /\ t_called = FALSE
    /\ IdleExcept("tmain")

\* one call of arg_get_arguments by the while loop of _tmain, and the loop body if the
\* call returned more than ARG_NO_MORE_ARGUMENTS
TmainArgument ==
    /\ prog = "tmain"
    /\ t_pc = "parse"
    /\ \E got \in {arg_get_arguments(t_argv, t_arg_index, t_option_int, t_next_short)} :
         LET argument == t_argv[got.arg_index + 1]
             option   == got.option_int
         IN
         /\ t_arg_index' = got.arg_index
         /\ t_option_int' = got.option_int
         /\ t_next_short' = got.next_short
         /\ IF got.status <= ARG_NO_MORE_ARGUMENTS
            THEN /\ t_status' = got.status
                 /\ t_pc' = "report"
                 /\ UNCHANGED <<t_program_args, t_given, t_out>>
            ELSE IF got.status # ARG_OPTIONAL_ARGUMENT
            THEN /\ t_out' = Append(t_out, tprintf("Illegal argument \"%s\".\n", argument))
                 /\ t_status' = ARG_EXIT_PROGRAM
                 /\ t_pc' = "report"
                 /\ UNCHANGED <<t_program_args, t_given>>
            ELSE IF option \in {"r", "c", "o", "k"}
            THEN LET number == tcstol(argument)
                 IN  /\ t_program_args' =
                            [t_program_args EXCEPT ![count_field(option)] = number.value]
                     /\ t_given' = t_given \cup {<<option, argument>>}
                     /\ IF Len(number.stop_ptr) > 0
                        THEN /\ t_out' = Append(t_out,
                                                tprintf("Error in argument %s.\n", argument))
                             /\ t_status' = -1
                        ELSE /\ t_out' = t_out
                             /\ t_status' = got.status
                     /\ t_pc' = "parse"
            ELSE IF option \in {"n", "s", "e", "p", "t"}
            THEN /\ t_program_args' = [t_program_args EXCEPT ![flag_field(option)] = TRUE]
                 /\ t_status' = got.status
                 /\ t_pc' = "parse"
                 /\ UNCHANGED <<t_given, t_out>>
            ELSE /\ t_out' = Append(t_out, IF option = "h"
                                           THEN tprintf("display_usage", << >>)
                                           ELSE tprintf("Program error.  Contact support.\n",
                                                        << >>))
                 /\ t_status' = ARG_EXIT_PROGRAM
                 /\ t_pc' = "report"
                 /\ UNCHANGED <<t_program_args, t_given>>
    /\ UNCHANGED <<arg_frame, t_argv, t_called>>

\* void arg_report_status(int status, TCHAR * argv_index_ptr): what it prints
arg_report_status(status, argument) ==
    IF status \in {ARG_NO_MORE_ARGUMENTS, ARG_EXIT_PROGRAM} THEN << >>
    ELSE IF status = ARG_ERROR_DUPLICATE_SHORT_OPTIONS
    THEN << tprintf("Error: duplicate characters in short option string, %s.\n", argument) >>
    ELSE IF status = ARG_ERROR_PARAM_WITH_MULTIPLE_SHORT_OPTIONS
    THEN << tprintf("Error: only letters for boolean short options may be mixed, %s.\n",
                    argument) >>
    ELSE IF status = ARG_ERROR_MISSING_SWITCH_ARGUMENT
    THEN << tprintf("Error: missing switch argument for switch %s.\n", argument) >>
    ELSE IF status = ARG_ERROR_INVALID_SWITCH
    THEN << tprintf("Error: invalid switch argument %s.\n", argument) >>
    ELSE << tprintf("Error: invalid internal status.  Contact support.\n", << >>) >>

\* _tmain after the loop, the start counts are not negative: the command line is
\* printed and ultimate_search_main is called
TmainCallsMain ==
    /\ prog = "tmain"
    /\ t_pc = "report"
    /\ t_status = ARG_NO_MORE_ARGUMENTS
    /\ t_program_args.red_start_count >= 0
    /\ t_program_args.cd_start_count >= 0
    /\ t_program_args.odd_start_count >= 0
    /\ t_program_args.c7k_start_count >= 0
    /\ t_out' = t_out \o [i \in DOMAIN t_argv |-> tprintf("%s ", t_argv[i])]
                     \o << tprintf("\n\n", << >>) >>
    /\ t_called' = TRUE
    /\ t_status' \in UltimateSearchMainStatuses
    /\ t_pc' = "done"
    /\ UNCHANGED <<arg_frame, t_argv, t_arg_index, t_next_short, t_option_int,
                   t_program_args, t_given>>

\* _tmain after the loop, in every other case: arg_report_status, then the message for
\* the first negative start count; _tmain returns status
TmainReturns ==
    /\ prog = "tmain"
    /\ t_pc = "report"
    /\ IF t_status # ARG_NO_MORE_ARGUMENTS
       THEN /\ t_out' = t_out \o arg_report_status(t_status, t_argv[t_arg_index + 1])
            /\ t_status' = t_status
       ELSE IF t_program_args.red_start_count < 0
       THEN /\ t_out' = Append(t_out,
                   tprintf("The HD (RED) start count must be a positive number.\n", << >>))
            /\ t_status' = -1
       ELSE IF t_program_args.cd_start_count < 0
       THEN /\ t_out' = Append(t_out,
                   tprintf("The CD start count must be a positive number.\n", << >>))
            /\ t_status' = -1
       ELSE IF t_program_args.odd_start_count < 0
       THEN /\ t_out' = Append(t_out,
                   tprintf("The ODD start count must be a positive number.\n", << >>))
            /\ t_status' = -1
       ELSE /\ t_program_args.c7k_start_count < 0
            /\ t_out' = Append(t_out,
                   tprintf("The 7K start count must be a positive number.\n", << >>))
            /\ t_status' = t_status
    /\ t_pc' = "done"
    /\ UNCHANGED <<arg_frame, t_argv, t_arg_index, t_next_short, t_option_int,
                   t_program_args, t_given, t_called>>

NextTmain == TmainArgument \/ TmainCallsMain \/ TmainReturns

SpecTmain == InitTmain /\ [][NextTmain]_vars

\* a text that is not a decimal number, or is a negative one
IsBadCount(text) == text = << >> \/ \E i \in DOMAIN text : ~istdigit(text[i])

\* an error message of _tmain or of arg_report_status has been printed
ErrorReported ==
    \E i \in DOMAIN t_out : t_out[i].format \notin {"display_usage", "%s ", "\n\n"}

\* C34: if a count option of the compound search program (-r, -c, -o, -k) is given a
\* non-numeric or negative value, the error is reported, ultimate_search_main is never
\* called, and the process returns a non-zero status.
C34_BadCountStopsProgram ==
    (prog = "tmain" /\ \E g \in t_given : IsBadCount(g[2])) =>
        /\ ~t_called
        /\ (t_pc = "done") => (ErrorReported /\ t_status # 0)

-----------------------------------------------------------------------------
(* Specification SpecFilter: the three tests that ultimate_search_main applies to *)
(* the ODD and 7K sequences of a bundle, each applied to the same seq_set         *)

\* the bundles are known bundles with at most MaxExchanges pairs of positions of the
\* ODD or of the 7K sequence exchanged, or one position of one of them inverted
MaxExchanges == 1

FilterBundles ==
    { bundle_of(EightKBundleRed, EightKBundleCd, EightKBundleOdd, EightKBundleC7k),
      bundle_of(PlainBundleRed, PlainBundleCd, PlainBundleOdd, PlainBundleC7k) }

\* a sequence with the bits at the positions i and j exchanged
Exchanged(seq, i, j) ==
    (seq \ {i, j}) \cup {i : k \in {j} \cap seq} \cup {j : k \in {i} \cap seq}

\* the sequences got from a sequence by at most count exchanges
RECURSIVE ExchangedSequences(_, _)
ExchangedSequences(seq, count) ==
    IF count = 0 THEN {seq}
    ELSE LET fewer == ExchangedSequences(seq, count - 1)
         IN  fewer \cup {Exchanged(s, i, j) : s \in fewer,
                         i \in 0 .. (N_BITS_MAX - 1), j \in 0 .. (N_BITS_MAX - 1)}

\* the ODD or 7K sequences tried for a sequence of a known bundle
FilterVariants(seq) ==
    ExchangedSequences(seq, MaxExchanges)
    \cup {Xor64(seq, {i}) : i \in 0 .. (N_BITS_MAX - 1)}

InitFilter ==
    /\ prog = "filter"
    /\ \E b \in FilterBundles :
         \E odd \in FilterVariants(b.odd_sequence), c7k \in FilterVariants(b.c7k_sequence) :
           /\ (odd = b.odd_sequence) \/ (c7k = b.c7k_sequence)
           /\ h_seq_set = bundle_seq_set(solve_seq_set_start(FALSE),
                                         [b EXCEPT !.odd_sequence = odd, !.c7k_sequence = c7k])
    /\ h_result = << >>
    /\ IdleExcept("filter")

\* is_valid_odd_sequence, is_valid_c7k_sequence and is_valid_deck_sequence are called
FilterCheck ==
    /\ prog = "filter"
    /\ h_result = << >>
    /\ h_result' = << [odd  |-> is_valid_odd_sequence(h_seq_set),
                       c7k  |-> is_valid_c7k_sequence(h_seq_set),
                       deck |-> is_valid_deck_sequence(h_seq_set)] >>
    /\ UNCHANGED <<flt_frame, h_seq_set>>

NextFilter == FilterCheck

SpecFilter == InitFilter /\ [][NextFilter]_vars

\* the number of positions of a suit with the given ODD bit
SuitOddCount(ss, suit_bits, bit) ==
    Cardinality(IF bit = 1 THEN suit_bits \cap ss.odd_sequence ELSE suit_bits \ ss.odd_sequence)

\* the number of the 52 positions at which both sequences have a zero
ZeroZeroCount(seq0, seq1) == Cardinality(sequence_mask \ (seq0 \cup seq1))

\* C36: the odd filter and the four 00-overlap checks are sound pre-filters for the
\* histogram check: for a valid suit pair (HD, CD) with HC = HD XOR CD, a pair (ODD, 7K)
\* whose 16-bin joint histogram is {3,3,3,4} x 4 has 7 odd and 6 even positions in every
\* suit and a 00-overlap count of 12 between 7K and each of ODD, HD, CD and HC, so
\* is_valid_odd_sequence and is_valid_c7k_sequence accept every bundle that
\* is_valid_deck_sequence accepts.
C36_PreFiltersSound ==
    (prog = "filter" /\ h_result # << >>) =>
        /\ is_valid_suit_seq_overlap(h_seq_set.red_sequence, h_seq_set.cd_sequence,
                                     sequence_mask)
        /\ h_seq_set.hc_sequence = Xor64(h_seq_set.red_sequence, h_seq_set.cd_sequence)
        /\ h_result[1].deck =>
             /\ \A suit_bits \in {h_seq_set.spade_bits, h_seq_set.heart_bits,
                                  h_seq_set.club_bits, h_seq_set.diamond_bits} :
                    /\ SuitOddCount(h_seq_set, suit_bits, 1) = 7
                    /\ SuitOddCount(h_seq_set, suit_bits, 0) = 6
             /\ \A seq \in {h_seq_set.odd_sequence, h_seq_set.red_sequence,
                            h_seq_set.cd_sequence, h_seq_set.hc_sequence} :
                    ZeroZeroCount(seq, h_seq_set.c7k_sequence) = 12
             /\ h_result[1].odd
             /\ h_result[1].c7k

\* the histogram check has accepted a bundle that is not one of the known bundles
C36_Witness ==
    /\ prog = "filter"
    /\ h_result # << >>
    /\ h_result[1].deck
    /\ \A b \in FilterBundles :
           h_seq_set.odd_sequence # b.odd_sequence \/ h_seq_set.c7k_sequence # b.c7k_sequence

-----------------------------------------------------------------------------
(* The written bundles as records of the realizer (SpecSolve) *)

\* seq_info as umake_decks_main fills it from the lines of a block
BlockSeqInfo(block, args) ==
    [seq_info_zero EXCEPT
        !.red_seq = BlockValue(block, args, <<"R", "E", "D">>),
        !.cd_seq  = BlockValue(block, args, <<" ", "C", "D">>),
        !.odd_seq = BlockValue(block, args, <<"O", "D", "D">>),
        !.c7k_seq = BlockValue(block, args, <<" ", "7", "K">>),
        !.c8k_seq = BlockValue(block, args, <<" ", "8", "K">>),
        !.c4t_seq = BlockValue(block, args, <<" ", "4", "T">>)]

\* the number of cards of a suit to which get_deck_possibilities gives a value
SuitValueCount(si, suit, value) ==
    LET deck_array == get_deck_possibilities(deck_info_zero.temp_deck_array, si)
    IN  Cardinality({i \in 0 .. (si.n_bits_max - 1) : deck_array[i] = suit * 256 + value})

\* umake_decks_main and find_best_deck_order go on to the loop over the variants: the six
\* sequences are valid, no cell of the deck is 0 and every marker has two indices
RealizerAccepts(si) ==
    /\ \A seq \in {si.red_seq, si.cd_seq, si.odd_seq, si.c7k_seq, si.c8k_seq, si.c4t_seq} :
           bit_has_unique_subsequences(seq)
    /\ LET temp_deck_array == get_deck_possibilities(deck_info_zero.temp_deck_array, si)
       IN  /\ ~deck_is_value_in_array(0, temp_deck_array, si.n_bits_max)
           /\ \A slot \in 0 .. 15 :
                  Cardinality(swap_indices(temp_deck_array, si.n_bits_max, slot)) = 2

\* C37: every bundle written by the search with both the 8K and the 4T solver enabled is
\* accepted by the realizer: no position has a value code that means no card, and in
\* every suit each of the four ambiguous markers (A/3, 4/6, 8/10, J/K) occurs exactly
\* twice and each of the values 2, 5, 7, 9 and Q exactly once.
C37_WrittenBundlesRealizable ==
    (prog = "solve" /\ o_args.c8k_sequence_flag /\ o_args.c4t_sequence_flag) =>
        \A b \in 1 .. (Len(v_out) \div BlockLength(o_args)) :
            \E si \in {BlockSeqInfo(BlockAt(v_out, o_args, b), o_args)} :
                /\ ~HasNoneCode(si)
                /\ \A suit \in {SUIT_SPADE, SUIT_CLUB, SUIT_HEART, SUIT_DIAMOND} :
                       /\ \A marker \in {VALUE_ACE_OR_THREE, VALUE_FOUR_OR_SIX,
                                         VALUE_EIGHT_OR_TEN, VALUE_JACK_OR_KING} :
                              SuitValueCount(si, suit, marker) = 2
                       /\ \A value \in {2, 5, 7, 9, 12} : SuitValueCount(si, suit, value) = 1
                /\ RealizerAccepts(si)

\* with both solvers enabled a bundle has been written
C37_Witness ==
    /\ prog = "solve"
    /\ o_args.c8k_sequence_flag /\ o_args.c4t_sequence_flag
    /\ Len(v_out) >= BlockLength(o_args)
    /\ BlockIsWellFormed(BlockAt(v_out, o_args, 1), o_args)

-----------------------------------------------------------------------------
(* Specification SpecRecords: umake_decks_main processes the records of a file one     *)
(* after the other.  seq_info and deck_info are locals of umake_decks_main that are    *)
(* cleared once, before the line loop, and handed to find_best_deck_order at the end   *)
(* of every record.                                                                    *)

\* the number of records of the file
MaxRecords == 2

\* the line loop after a record: the lines of the next record are read up to the
\* empty line that ends it; find_best_deck_order starts with its initialised locals
DeckNextRecord ==
    /\ prog = "deck"
    /\ d_pc = "next"
    /\ d_group_count < MaxRecords
    /\ d_record' \in CandidateRecords
    /\ d_pc' = "record"
    /\ d_local' = local_zero
    /\ d_seen' = << >>
    /\ UNCHANGED <<deck_frame, u_out, seq_info, deck_info, d_group_count>>

NextRecords ==
    \/ DeckReadRecord
    \/ DeckSetup
    \/ DeckVariant
    \/ DeckTest
    \/ DeckFinish
    \/ DeckDisplay
    \/ DeckNextRecord

SpecRecords == InitDeck /\ [][NextRecords]_vars

\* C38: what find_best_deck_order hands back for a record depends on that record and
\* the option flags only, so it is what the record gets as the first record of a file:
\* for a rejected record (no variant built) the cleared deck, the score TINY_DECK_SCORE
\* and no PredicateBits, and for a realized record the deck, score and PredicateBits of
\* one of the variants built for this record; no cell of the deck of an earlier record
\* is left in it.
C38_ResultIndependentOfPrecedingRecords ==
    (prog = "deck" /\ d_pc = "done") =>
        IF d_seen = << >>
        THEN /\ deck_info.deck_array = deck_info_zero.deck_array
             /\ deck_info.deck_score = TINY_DECK_SCORE
             /\ deck_info.sequence_type_bits = 0
        ELSE \E e \in 1 .. Len(d_seen) :
                 /\ deck_info.deck_array = d_seen[e].deck
                 /\ deck_info.deck_score = d_seen[e].score
                 /\ deck_info.sequence_type_bits = d_seen[e].sequence_type_bits

-----------------------------------------------------------------------------
(* A failed f64_make (SpecCache) *)

\* C39: a call of f64_make that fails leaves the handle variable NULL and the cache as
\* it was: the reference count, the path name and the cached array of every slot are
\* unchanged, so that a later f64_make of the same path finds what a first open finds,
\* and the call stays inside the sixteen slots.
C39_FailedMakeLeavesCacheUnchanged ==
    [][ (prog = "cache" /\ f64_log'.call = "make" /\ ~f64_log'.success) =>
           /\ ~f64_handles'[f64_log'.handle].live
           /\ s_reference_count_array' = s_reference_count_array
           /\ s_path_file_name_array' = s_path_file_name_array
           /\ s_cache_array' = s_cache_array
           /\ f64_pc' # "undefined" ]_vars

-----------------------------------------------------------------------------
(* The line arrays of the realizer at the end of a record (SpecFile) *)

\* the lines of the record that ends at a line which carry the label of an axis
AxisLines(stream, end, axis) ==
    {n \in RecordLines(stream, end) :
        array_of_name(split_line(strip_newline(stream[n])).name) = axis}

\* the text of the last line of the record with the label of the axis, the empty text
\* when the record has no such line
AxisValue(stream, end, axis) ==
    LET lines == AxisLines(stream, end, axis)
    IN  IF lines = {} THEN << >>
        ELSE split_line(strip_newline(
                 stream[CHOOSE n \in lines : \A m \in lines : m <= n])).sequence

\* the seven axes of the record that ends at a line, taken from its own lines
BlockArrays(stream, end) ==
    [axis \in DOMAIN arrays_cleared |-> AxisValue(stream, end, axis)]

\* C40: every axis that the realizer hands to find_best_deck_order at the end of a
\* record is the text of a labelled line read since the end of the record before, or
\* empty when the record has no line for the axis: no line of an earlier record and no
\* content of an array that was never written is used, also at the first record end of
\* the file and after records that the skip count passed over.
C40_AxesComeFromOwnBlock ==
    (prog = "pipe" /\ p_pc \in {"read", "done", "exit"}) =>
        \A e \in 1 .. Len(p_realized) :
            p_realized[e].seq_info =
                convert_arrays(BlockArrays(p_stream, p_realized[e].line))

=============================================================================
